---- MODULE Spec2Model ----
(***************************************************************************)
(* Model of the qualification-check execution bridge of cyclone            *)
(* (lib/cyclone/src/server/qualification_check.rs): one execution that     *)
(* goes through start(), process() and finish() against a websocket        *)
(* transport and a spawned language-server child process.                  *)
(*                                                                         *)
(* Every await point of the three entry points is one action; the outcome  *)
(* of each external operation (transport send/receive/close, spawn, pipe   *)
(* write, child stream read, child shutdown) is an input chosen with \E.   *)
(***************************************************************************)
EXTENDS Integers, Sequences, FiniteSets, TLC

VARIABLES
    lang_server_path,       \* QualificationCheckExecution.lang_server_path
    lang_server_debugging,  \* QualificationCheckExecution.lang_server_debugging
    pc,                     \* position of the execution inside start/process/finish
    sent,                   \* frames the transport has accepted, in order
    wsOpen,                 \* TRUE until ws.close() has consumed the socket
    inbound,                \* Option<event>: what the caller's stream has for ws.next()
    request,                \* Option<QualificationCheckRequest> read by start()
    command,                \* Option<Command> built by start()
    child,                  \* state of the worker process and of its handle
    childStdin,             \* state of the child's stdin pipe
    childIn,                \* records written to the child's stdin
    stdoutLine,             \* Option<JSON object>: the frame last read from the child's stdout
    emitted,                \* records pulled so far from the child's stdout
    pending,                \* Option<frame>: pulled and translated, not yet sent
    finished,               \* finish(): Option<Result> of ws_send_finish
    closed,                 \* finish(): Option<Result> of ws_close
    startRet,               \* what start() returned
    processRet,             \* what process() returned
    finishRet,              \* what finish() returned
    warnings,               \* warn! records emitted by finish()
    clock,                  \* what Utc::now().timestamp() gives during the execution
    trace,                  \* every external operation attempted, with its outcome
    others                  \* the executions of the other connections, each as the
                            \* record of its variables, waiting at an await point

vars == <<lang_server_path, lang_server_debugging, pc, sent, wsOpen, inbound,
          request, command, child, childStdin, childIn, stdoutLine, emitted, pending,
          finished, closed, startRet, processRet, finishRet, warnings, clock, trace,
          others>>

-----------------------------------------------------------------------------
(* Bounds and input sets *)

\* most records one worker emits in a run of the model
MaxRecords == 3

\* the executions of the model: the arguments of execute() and the value
\* Utc::now().timestamp() has while the execution runs (an i64, so negative
\* values too)
Executions ==
    {[path |-> "/usr/local/bin/lang-js", debugging |-> FALSE, clock |-> 7],
     [path |-> "/no/such/lang-js", debugging |-> TRUE, clock |-> -5],
     [path |-> "/usr/local/bin/lang-js", debugging |-> TRUE, clock |-> 0]}

\* width of the integers of the model: the i64 of Utc::now().timestamp() and
\* the u64 of an envelope's timestamp are WordBits wide instead of 64
WordBits == 8

I64_MIN == -(2^(WordBits - 1))

I64_MAX == 2^(WordBits - 1) - 1

U64_MAX == 2^WordBits - 1

\* Option<T>: None is <<>>, Some(v) is <<v>>
None == <<>>

Some(v) == <<v>>

-----------------------------------------------------------------------------
(* Results and errors *)

Pending == [tag |-> "Pending"]

Ok == [tag |-> "Ok"]

Err(e) == [tag |-> "Err", error |-> e]

\* QualificationCheckError variants
ChildIO(which) == [kind |-> "ChildIO", stream |-> which]

ChildRecvIO == [kind |-> "ChildRecvIO"]

ChildSendIO == [kind |-> "ChildSendIO"]

ChildSpawn(path) == [kind |-> "ChildSpawn", program |-> path]

ChildShutdown == [kind |-> "ChildShutdown"]

JSONDeserialize == [kind |-> "JSONDeserialize"]

JSONSerialize == [kind |-> "JSONSerialize"]

SendTimeout == [kind |-> "SendTimeout"]

WSClose == [kind |-> "WSClose"]

WSRecvClosed == [kind |-> "WSRecvClosed"]

WSRecvIO == [kind |-> "WSRecvIO"]

WSSendIO == [kind |-> "WSSendIO"]

UnexpectedMessageType(msg) == [kind |-> "UnexpectedMessageType", message |-> msg]

-----------------------------------------------------------------------------
(* Worker-side records (LangServerQualificationCheckMessage) *)

OutputA ==
    [protocol |-> "output", executionId |-> "e1", stream |-> "stdout",
     level |-> "info", group |-> None, message |-> "A", data |-> None]

OutputB ==
    [protocol |-> "output", executionId |-> "e1", stream |-> "stderr",
     level |-> "warn", group |-> Some("g"), message |-> "B", data |-> Some("d")]

ResultSuccess ==
    [protocol |-> "result", status |-> "success", executionId |-> "e1",
     qualified |-> TRUE, title |-> Some("t"), link |-> None,
     subChecks |-> None, message |-> Some("fine")]

ResultFailure ==
    [protocol |-> "result", status |-> "failure", executionId |-> "",
     error |-> [kind |-> "UserCodeException", message |-> "boom"]]

LangServerMessages == {OutputA, OutputB, ResultSuccess, ResultFailure}

-----------------------------------------------------------------------------
(* Frames of the worker's stdout: one JSON object per line; a key that is   *)
(* absent from the object is absent from the record's domain                *)

FrameOutputA ==
    [protocol |-> "output", executionId |-> "e1", stream |-> "stdout",
     level |-> "info", message |-> "A"]

FrameOutputB ==
    [protocol |-> "output", executionId |-> "e1", stream |-> "stderr",
     level |-> "warn", group |-> "g", message |-> "B", data |-> "d"]

FrameSuccess ==
    [protocol |-> "result", status |-> "success", executionId |-> "e1",
     qualified |-> TRUE, title |-> "t", message |-> "fine"]

\* a failure result that has no executionId key
FrameFailure ==
    [protocol |-> "result", status |-> "failure",
     error |-> [kind |-> "UserCodeException", message |-> "boom"]]

\* a line that is a JSON object but no record of the protocol
FrameMalformed == [protocol |-> "output", executionId |-> "e1"]

\* the lines a worker of the model writes
WorkerFrames ==
    {FrameOutputA, FrameOutputB, FrameSuccess, FrameFailure, FrameMalformed}

Has(json, keys) == keys \subseteq DOMAIN json

\* a field of type Option<T>: None when the key is absent
Optional(json, key) == IF key \in DOMAIN json THEN Some(json[key]) ELSE None

\* a String field marked #[serde(default)]: empty when the key is absent
DefaultString(json, key) == IF key \in DOMAIN json THEN json[key] ELSE ""

Decoded(value) == [tag |-> "Ok", value |-> value]

DecodeError == [tag |-> "Err", error |-> "serde_json::Error"]

\* Deserialize for LangServerOutput
LangServerOutputDecode(json) ==
    IF Has(json, {"executionId", "stream", "level", "message"})
    THEN Decoded([protocol |-> "output", executionId |-> json.executionId,
                  stream |-> json.stream, level |-> json.level,
                  group |-> Optional(json, "group"), message |-> json.message,
                  data |-> Optional(json, "data")])
    ELSE DecodeError

\* Deserialize for LangServerSuccess
LangServerSuccessDecode(json) ==
    IF Has(json, {"executionId", "qualified"})
    THEN Decoded([protocol |-> "result", status |-> "success",
                  executionId |-> json.executionId, qualified |-> json.qualified,
                  title |-> Optional(json, "title"), link |-> Optional(json, "link"),
                  subChecks |-> Optional(json, "subChecks"),
                  message |-> Optional(json, "message")])
    ELSE DecodeError

\* a LangServerFailure whose execution_id has no #[serde(default)]
LangServerFailureDecodeStrict(json) ==
    IF Has(json, {"executionId", "error"}) /\ Has(json.error, {"kind", "message"})
    THEN Decoded([protocol |-> "result", status |-> "failure",
                  executionId |-> json.executionId,
                  error |-> [kind |-> json.error.kind, message |-> json.error.message]])
    ELSE DecodeError

\* Deserialize for LangServerFailure and LangServerFailureError
LangServerFailureDecode(json) ==
    IF Has(json, {"error"}) /\ Has(json.error, {"kind", "message"})
    THEN Decoded([protocol |-> "result", status |-> "failure",
                  executionId |-> DefaultString(json, "executionId"),
                  error |-> [kind |-> json.error.kind, message |-> json.error.message]])
    ELSE DecodeError

\* Deserialize for LangServerResult, tagged by "status"
LangServerResultDecode(json) ==
    IF ~Has(json, {"status"}) THEN DecodeError
    ELSE CASE json.status = "success" -> LangServerSuccessDecode(json)
           [] json.status = "failure" -> LangServerFailureDecode(json)
           [] OTHER -> DecodeError

\* Deserialize for LangServerQualificationCheckMessage, tagged by "protocol":
\* what the framed stdout stream makes of one line
LangServerDecode(json) ==
    IF ~Has(json, {"protocol"}) THEN DecodeError
    ELSE CASE json.protocol = "output" -> LangServerOutputDecode(json)
           [] json.protocol = "result" -> LangServerResultDecode(json)
           [] OTHER -> DecodeError

-----------------------------------------------------------------------------
(* Translation to the caller-facing protocol *)

\* std::cmp::max
max(a, b) == IF b >= a THEN b ELSE a

\* u64::try_from(i64): an error when the value is no u64
u64_try_from(v) ==
    IF v >= 0 /\ v <= U64_MAX
    THEN [tag |-> "Ok", value |-> v]
    ELSE [tag |-> "Err", error |-> "TryFromIntError"]

\* what a thread that panicked in expect() leaves instead of a value
Panic(message) == [panic |-> message]

\* Result::expect
expect(r, message) == IF r.tag = "Ok" THEN r.value ELSE Panic(message)

\* a conversion by cast, which wraps a negative value around
timestampCast(now) == now % (U64_MAX + 1)

\* fn timestamp(): u64::try_from(max(now, 0)).expect(..)
timestamp(now) == expect(u64_try_from(max(now, 0)), "timestamp not be negative")

\* impl From<LangServerOutput> for OutputStream
OutputStreamFrom(value, now) ==
    [executionId |-> value.executionId, stream |-> value.stream,
     level |-> value.level, group |-> value.group, data |-> value.data,
     message |-> value.message, timestamp |-> timestamp(now)]

\* a Failure arm that copies the error's kind into its message
FunctionResultFromKindTwice(value, now) ==
    IF value.status = "success"
    THEN [status |-> "success", executionId |-> value.executionId,
          qualified |-> value.qualified, message |-> value.message,
          title |-> value.title, link |-> value.link,
          subChecks |-> value.subChecks, timestamp |-> timestamp(now)]
    ELSE [status |-> "failure", executionId |-> value.executionId,
          error |-> [kind |-> value.error.kind, message |-> value.error.kind],
          timestamp |-> timestamp(now)]

\* impl From<LangServerResult> for FunctionResult<QualificationCheckResultSuccess>
FunctionResultFrom(value, now) ==
    IF value.status = "success"
    THEN [status |-> "success", executionId |-> value.executionId,
          qualified |-> value.qualified, message |-> value.message,
          title |-> value.title, link |-> value.link,
          subChecks |-> value.subChecks, timestamp |-> timestamp(now)]
    ELSE [status |-> "failure", executionId |-> value.executionId,
          error |-> [kind |-> value.error.kind, message |-> value.error.message],
          timestamp |-> timestamp(now)]

MessageStart == [protocol |-> "start"]

MessageFinish == [protocol |-> "finish"]

MessageOutputStream(payload) == [protocol |-> "outputStream", payload |-> payload]

MessageResult(payload) == [protocol |-> "result", payload |-> payload]

\* a translation whose two match arms are swapped
MessageFromSwapped(ls_msg, now) ==
    IF ls_msg.protocol = "output"
    THEN MessageResult(OutputStreamFrom(ls_msg, now))
    ELSE MessageOutputStream(FunctionResultFrom(ls_msg, now))

\* first closure of process(): the worker record as a Message
MessageFrom(ls_msg, now) ==
    IF ls_msg.protocol = "output"
    THEN MessageOutputStream(OutputStreamFrom(ls_msg, now))
    ELSE MessageResult(FunctionResultFrom(ls_msg, now))

\* WebSocketMessage::Text(json_str) holding the serialized message
WsText(msg) == [frame |-> "Text", json |-> msg]

\* ws_send_start: Message::Start.serialize_to_string() as a text frame
StartFrame == WsText(MessageStart)

\* a finish that sends the frame of ws_send_start, which it was copied from
FinishFrameCopiedStart == WsText(MessageStart)

\* ws_send_finish: Message::Finish.serialize_to_string() as a text frame
FinishFrame == WsText(MessageFinish)

-----------------------------------------------------------------------------
(* Caller-side input *)

Requests ==
    {[executionId |-> "e1", handler |-> "check"],
     [executionId |-> "e2", handler |-> "check"]}

\* what ws.next() may yield: a text frame (whose text may or may not be the
\* JSON of a request), a frame of another kind, a receive error, end of stream
InboundEvents ==
    {[ev |-> "Text", text |-> Some(r)] : r \in Requests}
        \cup {[ev |-> "Text", text |-> None]}
        \cup {[ev |-> "Binary"], [ev |-> "Close"], [ev |-> "Error"], [ev |-> "None"]}

\* QualificationCheckRequest::deserialize_from_str, as read_request uses it
deserialize_from_str(text) ==
    IF text = None THEN Err(JSONDeserialize) ELSE [tag |-> "Ok", value |-> text[1]]

\* a match whose None arm reports a receive error
read_requestClosedAsIO(event) ==
    CASE event.ev = "Text" -> deserialize_from_str(event.text)
      [] event.ev = "Error" -> Err(WSRecvIO)
      [] event.ev = "None" -> Err(WSRecvIO)
      [] OTHER -> Err(UnexpectedMessageType(event))

\* read_request: the match on ws.next()
read_request(event) ==
    CASE event.ev = "Text" -> deserialize_from_str(event.text)
      [] event.ev = "Error" -> Err(WSRecvIO)
      [] event.ev = "None" -> Err(WSRecvClosed)
      [] OTHER -> Err(UnexpectedMessageType(event))

\* const TX_TIMEOUT_SECS
TX_TIMEOUT_SECS == 2

\* time::timeout(TX_TIMEOUT_SECS, ws.send(..)) after serialize_to_string, as in
\* ws_send_start and ws_send_finish; r is how the attempt went: a caller that
\* never accepts the frame makes the attempt end "timeout" at the deadline
TimedSendOutcomes == {"ok", "serialize", "timeout", "io"}

\* a timed send whose timeout is reported as a transport failure
TimedSendResultFolded(r) ==
    CASE r = "ok" -> Ok
      [] r = "serialize" -> Err(JSONSerialize)
      [] r = "timeout" -> Err(WSSendIO)
      [] r = "io" -> Err(WSSendIO)

TimedSendResult(r) ==
    CASE r = "ok" -> Ok
      [] r = "serialize" -> Err(JSONSerialize)
      [] r = "timeout" -> Err(SendTimeout)
      [] r = "io" -> Err(WSSendIO)

\* the deadline each send operation of the code runs under: Some(seconds) for
\* the ones wrapped in time::timeout, None for the bare ws.send of process()
SendDeadline(op) ==
    IF op \in {"ws_send_start", "ws_send_finish", "child_send", "child_close"}
    THEN Some(TX_TIMEOUT_SECS)
    ELSE None

\* time::timeout(TX_TIMEOUT_SECS, stdin.send(..)/stdin.close())
ChildSendOutcomes == {"ok", "timeout", "io"}

\* a pipe write whose timeout is reported as an I/O failure
ChildSendResultFolded(r) ==
    CASE r = "ok" -> Ok
      [] r = "timeout" -> Err(ChildSendIO)
      [] r = "io" -> Err(ChildSendIO)

ChildSendResult(r) ==
    CASE r = "ok" -> Ok
      [] r = "timeout" -> Err(SendTimeout)
      [] r = "io" -> Err(ChildSendIO)

\* a Command that gets the debug environment whatever the flag
CommandAlwaysDebug(path, debugging) ==
    [program |-> path, args |-> <<"qualificationcheck">>,
     stdin |-> "piped", stdout |-> "piped",
     env |-> {<<"DEBUG", "*">>, <<"DEBUG_DEPTH", "5">>}]

\* the Command start() builds
Command(path, debugging) ==
    [program |-> path, args |-> <<"qualificationcheck">>,
     stdin |-> "piped", stdout |-> "piped",
     env |-> IF debugging
             THEN {<<"DEBUG", "*">>, <<"DEBUG_DEPTH", "5">>}
             ELSE {}]

\* the state of a spawned child whose handle is dropped without child_shutdown
\* (the Command does not set kill_on_drop): the process is left running
DroppedChild(c) == IF c = "running" THEN "orphaned" ELSE c

Op(name, res) == [op |-> name, res |-> res]

-----------------------------------------------------------------------------
(* Initial state: an Unstarted execution, as execute() builds it *)

Init ==
    /\ \E e \in Executions :
        /\ lang_server_path = e.path
        /\ lang_server_debugging = e.debugging
        /\ clock = e.clock
    /\ pc = "start"
    /\ sent = <<>>
    /\ wsOpen = TRUE
    /\ inbound = None
    /\ request = None
    /\ command = None
    /\ child = "none"
    /\ childStdin = "none"
    /\ childIn = <<>>
    /\ stdoutLine = None
    /\ emitted = <<>>
    /\ pending = None
    /\ finished = None
    /\ closed = None
    /\ startRet = Pending
    /\ processRet = Pending
    /\ finishRet = Pending
    /\ warnings = <<>>
    /\ trace = <<>>
    /\ others = <<>>

-----------------------------------------------------------------------------
(* start() *)

\* a start() whose error does not keep the Started value from being used
StartFailsKeepsGoing(e) ==
    /\ startRet' = Err(e)
    /\ pc' = "process_next"

\* start() returns Err(e): the `?` leaves the function, dropping its locals
StartFails(e) ==
    /\ startRet' = Err(e)
    /\ pc' = "aborted"

\* a Start send whose failure is not propagated
WsSendStartBestEffort ==
    /\ pc = "start"
    /\ \E r \in TimedSendOutcomes :
        /\ trace' = Append(trace, Op("ws_send_start", r))
        /\ sent' = IF r = "ok" THEN Append(sent, StartFrame) ELSE sent
    /\ pc' = "start_read"
    /\ UNCHANGED <<others, stdoutLine, clock, inbound, lang_server_path, lang_server_debugging,
                   wsOpen, request, command, child, childStdin, childIn, emitted,
                   pending, finished, closed, startRet, processRet, finishRet,
                   warnings>>

\* Self::ws_send_start(ws).await?
WsSendStart ==
    /\ pc = "start"
    /\ \E r \in TimedSendOutcomes :
        /\ trace' = Append(trace, Op("ws_send_start", r))
        /\ IF r = "ok"
           THEN /\ sent' = Append(sent, StartFrame)
                /\ pc' = "start_read"
                /\ UNCHANGED startRet
           ELSE /\ StartFails(TimedSendResult(r).error)
                /\ UNCHANGED sent
    /\ UNCHANGED <<others, stdoutLine, clock, inbound, lang_server_path, lang_server_debugging, wsOpen, request,
                   command, child, childStdin, childIn, emitted, pending,
                   finished, closed, processRet, finishRet, warnings>>

\* the caller, while read_request waits in ws.next().await: a frame arrives,
\* the receive fails, or the connection goes away and the stream ends
CallerEvent ==
    /\ pc = "start_read"
    /\ inbound = None
    /\ \E event \in InboundEvents : inbound' = Some(event)
    /\ UNCHANGED <<others, stdoutLine, clock, lang_server_path, lang_server_debugging, pc, sent,
                   wsOpen, request, command, child, childStdin, childIn, emitted,
                   pending, finished, closed, startRet, processRet, finishRet,
                   warnings, trace>>

\* a receive that goes on waiting until a text frame comes
ReadRequestWaitsForText ==
    /\ pc = "start_read"
    /\ inbound # None
    /\ inbound[1].ev = "Text"
    /\ LET event == inbound[1]
           got == read_request(event)
       IN
        /\ trace' = Append(trace, Op("ws_recv", event.ev))
        /\ IF got.tag = "Ok"
           THEN /\ request' = Some(got.value)
                /\ pc' = "start_spawn"
                /\ UNCHANGED startRet
           ELSE /\ StartFails(got.error)
                /\ UNCHANGED request
    /\ UNCHANGED <<others, stdoutLine, clock, inbound, lang_server_path, lang_server_debugging,
                   sent, wsOpen, command, child, childStdin, childIn, emitted,
                   pending, finished, closed, processRet, finishRet, warnings>>

\* a read_request whose failure is reported to the caller: Finish is sent and
\* the transport is closed before start() returns the error
ReadRequestReportsFailure ==
    /\ pc = "start_read"
    /\ inbound # None
    /\ LET event == inbound[1]
           got == read_request(event)
       IN
        /\ trace' = Append(trace, Op("ws_recv", event.ev))
        /\ IF got.tag = "Ok"
           THEN /\ request' = Some(got.value)
                /\ pc' = "start_spawn"
                /\ UNCHANGED <<startRet, sent, wsOpen>>
           ELSE /\ StartFails(got.error)
                /\ sent' = Append(sent, FinishFrame)
                /\ wsOpen' = FALSE
                /\ UNCHANGED request
    /\ UNCHANGED <<others, stdoutLine, clock, inbound, lang_server_path, lang_server_debugging,
                   command, child, childStdin, childIn, emitted,
                   pending, finished, closed, processRet, finishRet, warnings>>


\* let request = Self::read_request(ws).await?: ws.next() comes back once the
\* caller's stream has an item or has ended
ReadRequest ==
    /\ pc = "start_read"
    /\ inbound # None
    /\ LET event == inbound[1]
           got == read_request(event)
       IN
        /\ trace' = Append(trace, Op("ws_recv", event.ev))
        /\ IF got.tag = "Ok"
           THEN /\ request' = Some(got.value)
                /\ pc' = "start_spawn"
                /\ UNCHANGED startRet
           ELSE /\ StartFails(got.error)
                /\ UNCHANGED request
    /\ UNCHANGED <<others, stdoutLine, clock, inbound, lang_server_path, lang_server_debugging,
                   sent, wsOpen, command, child, childStdin, childIn, emitted,
                   pending, finished, closed, processRet, finishRet, warnings>>

\* a spawn error that names the program of an empty Command
SpawnErrorNoPath(path) == ChildSpawn("")

\* the error of a failed command.spawn()
SpawnError(path) == ChildSpawn(path)

\* Command::new(..) .. command.spawn().map_err(ChildSpawn)?
SpawnChild ==
    /\ pc = "start_spawn"
    /\ command' = Some(Command(lang_server_path, lang_server_debugging))
    /\ \E spawned \in BOOLEAN :
        /\ trace' = Append(trace, Op("spawn", IF spawned THEN "ok" ELSE "io"))
        /\ IF spawned
           THEN /\ child' = "running"
                /\ childStdin' = "open"
                /\ pc' = "start_stdin"
                /\ UNCHANGED startRet
           ELSE /\ StartFails(SpawnError(lang_server_path))
                /\ UNCHANGED <<child, childStdin>>
    /\ UNCHANGED <<others, stdoutLine, clock, inbound, lang_server_path, lang_server_debugging, sent, wsOpen,
                   request, childIn, emitted, pending, finished, closed,
                   processRet, finishRet, warnings>>

\* a start() that takes both pipes of the worker before it writes the request
TakeStdinAndStdout ==
    /\ pc = "start_stdin"
    /\ \E present \in BOOLEAN, stdout_present \in BOOLEAN :
        CASE ~present ->
                /\ trace' = Append(trace, Op("take_stdin", "none"))
                /\ StartFails(ChildIO("stdin"))
                /\ child' = DroppedChild(child)
          [] present /\ ~stdout_present ->
                /\ trace' = trace \o <<Op("take_stdin", "ok"), Op("take_stdout", "none")>>
                /\ StartFails(ChildIO("stdout"))
                /\ child' = DroppedChild(child)
          [] present /\ stdout_present ->
                /\ trace' = Append(trace, Op("take_stdin", "ok"))
                /\ pc' = "start_write"
                /\ UNCHANGED <<startRet, child>>
    /\ UNCHANGED <<others, stdoutLine, clock, inbound, lang_server_path, lang_server_debugging, sent, wsOpen,
                   request, command, childStdin, childIn, emitted, pending,
                   finished, closed, processRet, finishRet, warnings>>


\* child.stdin.take().ok_or(ChildIO("stdin"))?
TakeStdin ==
    /\ pc = "start_stdin"
    /\ \E present \in BOOLEAN :
        /\ trace' = Append(trace, Op("take_stdin", IF present THEN "ok" ELSE "none"))
        /\ IF present
           THEN /\ pc' = "start_write"
                /\ UNCHANGED <<startRet, child>>
           ELSE /\ StartFails(ChildIO("stdin"))
                /\ child' = DroppedChild(child)
    /\ UNCHANGED <<others, stdoutLine, clock, inbound, lang_server_path, lang_server_debugging, sent, wsOpen,
                   request, command, childStdin, childIn, emitted, pending,
                   finished, closed, processRet, finishRet, warnings>>

\* a write whose failure is not propagated: the half-close follows anyway
ChildSendRequestNoAbort ==
    /\ pc = "start_write"
    /\ \E r \in ChildSendOutcomes :
        /\ trace' = Append(trace, Op("child_send", r))
        /\ childIn' = IF r = "ok" THEN Append(childIn, request[1]) ELSE childIn
    /\ pc' = "start_close"
    /\ UNCHANGED <<others, stdoutLine, clock, inbound, lang_server_path, lang_server_debugging, sent,
                   wsOpen, request, command, emitted, pending, finished, closed,
                   startRet, child, childStdin, processRet, finishRet, warnings>>

\* a write that is tried again after a timeout
ChildSendRequestRetries ==
    /\ pc = "start_write"
    /\ \E r \in ChildSendOutcomes :
        /\ trace' = Append(trace, Op("child_send", r))
        /\ CASE r = "ok" ->
                /\ childIn' = Append(childIn, request[1])
                /\ pc' = "start_close"
                /\ UNCHANGED <<startRet, child, childStdin>>
             [] r = "timeout" ->
                /\ childIn' = Append(childIn, request[1])
                /\ UNCHANGED <<pc, startRet, child, childStdin>>
             [] r = "io" ->
                /\ StartFails(ChildSendIO)
                /\ child' = DroppedChild(child)
                /\ childStdin' = "closed"
                /\ UNCHANGED childIn
    /\ UNCHANGED <<others, stdoutLine, clock, inbound, lang_server_path, lang_server_debugging, sent,
                   wsOpen, request, command, emitted, pending, finished, closed,
                   processRet, finishRet, warnings>>

\* child_send_function_request: time::timeout(.., stdin.send(request))
ChildSendRequest ==
    /\ pc = "start_write"
    /\ \E r \in ChildSendOutcomes :
        /\ trace' = Append(trace, Op("child_send", r))
        /\ IF r = "ok"
           THEN /\ childIn' = Append(childIn, request[1])
                /\ pc' = "start_close"
                /\ UNCHANGED <<startRet, child, childStdin>>
           ELSE /\ StartFails(ChildSendResult(r).error)
                /\ child' = DroppedChild(child)
                /\ childStdin' = "closed"
                /\ UNCHANGED childIn
    /\ UNCHANGED <<others, stdoutLine, clock, inbound, lang_server_path, lang_server_debugging, sent, wsOpen,
                   request, command, emitted, pending, finished, closed,
                   processRet, finishRet, warnings>>

\* a half-close that is reported as done while the worker's input stays open
ChildCloseStdinLeavesOpen ==
    /\ pc = "start_close"
    /\ \E r \in ChildSendOutcomes :
        /\ trace' = Append(trace, Op("child_close", r))
        /\ IF r = "ok"
           THEN /\ pc' = "start_stdout"
                /\ UNCHANGED <<startRet, child, childStdin>>
           ELSE /\ StartFails(ChildSendResult(r).error)
                /\ child' = DroppedChild(child)
                /\ childStdin' = "closed"
    /\ UNCHANGED <<others, stdoutLine, clock, inbound, lang_server_path, lang_server_debugging, sent, wsOpen,
                   request, command, childIn, emitted, pending, finished,
                   closed, processRet, finishRet, warnings>>

\* child_send_function_request: time::timeout(.., stdin.close())
ChildCloseStdin ==
    /\ pc = "start_close"
    /\ \E r \in ChildSendOutcomes :
        /\ trace' = Append(trace, Op("child_close", r))
        /\ childStdin' = "closed"
        /\ IF r = "ok"
           THEN /\ pc' = "start_stdout"
                /\ UNCHANGED <<startRet, child>>
           ELSE /\ StartFails(ChildSendResult(r).error)
                /\ child' = DroppedChild(child)
    /\ UNCHANGED <<others, stdoutLine, clock, inbound, lang_server_path, lang_server_debugging, sent, wsOpen,
                   request, command, childIn, emitted, pending, finished,
                   closed, processRet, finishRet, warnings>>

\* child.stdout.take().ok_or(ChildIO("stdout"))?; Ok(Started { child, stdout })
TakeStdout ==
    /\ pc = "start_stdout"
    /\ \E present \in BOOLEAN :
        /\ trace' = Append(trace, Op("take_stdout", IF present THEN "ok" ELSE "none"))
        /\ IF present
           THEN /\ startRet' = Ok
                /\ pc' = "process_next"
                /\ UNCHANGED child
           ELSE /\ StartFails(ChildIO("stdout"))
                /\ child' = DroppedChild(child)
    /\ UNCHANGED <<others, stdoutLine, clock, inbound, lang_server_path, lang_server_debugging, sent, wsOpen,
                   request, command, childStdin, childIn, emitted, pending,
                   finished, closed, processRet, finishRet, warnings>>

-----------------------------------------------------------------------------
(* process() *)

\* a process() that kills and reaps the worker before it returns its error
ProcessFailsReapsWorker(e) ==
    /\ processRet' = Err(e)
    /\ pc' = "aborted"
    /\ child' = "exited"


\* process() returns Err(e): the Started value (child, stdout) is dropped and
\* no Closing value is produced
ProcessFails(e) ==
    /\ processRet' = Err(e)
    /\ pc' = "aborted"
    /\ child' = DroppedChild(child)

\* a send that overtakes the frames sent before it
ForwardOutOfOrder(frames, msg) == <<frames[1], msg>> \o Tail(frames)

\* a send that delivers the frame twice
ForwardTwice(frames, msg) == Append(Append(frames, msg), msg)

\* ws.send(msg) succeeded: the transport has one more frame, after the others
Forward(frames, msg) == Append(frames, msg)

\* stream.try_next() yields Some(Ok(record)): translated and serialized by the
\* two map closures
NextRecord ==
    /\ pc = "process_next"
    /\ Len(emitted) < MaxRecords
    /\ \E json \in WorkerFrames, serialized \in BOOLEAN :
        LET ls_result == LangServerDecode(json)
            ls_msg == ls_result.value
        IN
        /\ ls_result.tag = "Ok"
        /\ stdoutLine' = Some(json)
        /\ emitted' = Append(emitted, ls_msg)
        /\ trace' = Append(trace, Op("try_next", IF serialized THEN "ok" ELSE "serialize"))
        /\ IF serialized
           THEN /\ pending' = Some(WsText(MessageFrom(ls_msg, clock)))
                /\ pc' = "process_send"
                /\ UNCHANGED <<processRet, child>>
           ELSE /\ ProcessFails(JSONSerialize)
                /\ UNCHANGED pending
    /\ UNCHANGED <<others, clock, inbound, lang_server_path, lang_server_debugging, sent, wsOpen,
                   request, command, childStdin, childIn, finished, closed,
                   startRet, finishRet, warnings>>

\* a loop that skips the item that failed and pulls the next one
NextErrorSkipsItem ==
    /\ pc = "process_next"
    /\ Len(trace) < 12
    /\ trace' = Append(trace, Op("try_next", "io"))
    /\ UNCHANGED <<others, stdoutLine, pc, processRet, child, clock, inbound, lang_server_path,
                   lang_server_debugging, sent, wsOpen, request, command, childStdin,
                   childIn, emitted, pending, finished, closed, startRet, finishRet,
                   warnings>>

\* stream.try_next() yields Some(Err(err)): a read error or a frame that does
\* not decode, both an io::Error of the framed stream
NextError ==
    /\ pc = "process_next"
    /\ \/ /\ trace' = Append(trace, Op("try_next", "io"))
          /\ UNCHANGED stdoutLine
       \/ \E json \in WorkerFrames :
            /\ LangServerDecode(json).tag = "Err"
            /\ stdoutLine' = Some(json)
            /\ trace' = Append(trace, Op("try_next", "malformed"))
    /\ ProcessFails(ChildRecvIO)
    /\ UNCHANGED <<others, clock, inbound, lang_server_path, lang_server_debugging, sent, wsOpen,
                   request, command, childStdin, childIn, emitted, pending,
                   finished, closed, startRet, finishRet, warnings>>

\* an end of stream that is an error unless a Result record came before it
NextEofRequiresResult ==
    /\ pc = "process_next"
    /\ trace' = Append(trace, Op("try_next", "eof"))
    /\ IF \E i \in 1..Len(emitted) : emitted[i].protocol = "result"
       THEN processRet' = Ok /\ pc' = "finish" /\ UNCHANGED child
       ELSE ProcessFails(ChildRecvIO)
    /\ UNCHANGED <<others, stdoutLine, clock, inbound, lang_server_path, lang_server_debugging, sent,
                   wsOpen, request, command, childStdin, childIn, emitted,
                   pending, finished, closed, startRet, finishRet, warnings>>

\* an end of stream that is an error when the worker emitted nothing at all
NextEofEmptyIsError ==
    /\ pc = "process_next"
    /\ trace' = Append(trace, Op("try_next", "eof"))
    /\ IF emitted # <<>>
       THEN processRet' = Ok /\ pc' = "finish" /\ UNCHANGED child
       ELSE ProcessFails(ChildRecvIO)
    /\ UNCHANGED <<others, stdoutLine, clock, inbound, lang_server_path, lang_server_debugging, sent,
                   wsOpen, request, command, childStdin, childIn, emitted,
                   pending, finished, closed, startRet, finishRet, warnings>>


\* stream.try_next() yields None: Ok(Closing { child })
NextEof ==
    /\ pc = "process_next"
    /\ trace' = Append(trace, Op("try_next", "eof"))
    /\ processRet' = Ok
    /\ pc' = "finish"
    /\ UNCHANGED <<others, stdoutLine, clock, inbound, lang_server_path, lang_server_debugging, sent, wsOpen,
                   request, command, child, childStdin, childIn, emitted,
                   pending, finished, closed, startRet, finishRet, warnings>>

\* ws.send(msg) with no time::timeout around it: the send succeeds, fails, or,
\* when the caller never accepts the frame, never completes
UntimedSendOutcomes == {"ok", "io", "stalled"}

\* a send through a transport that the executions share: the frame goes to
\* the connection that was accepted first
WsSendSharedTransport ==
    /\ pc = "process_send"
    /\ trace' = Append(trace, Op("ws_send", "ok"))
    /\ IF others = <<>>
       THEN sent' = Forward(sent, pending[1]) /\ UNCHANGED others
       ELSE /\ others' = [others EXCEPT ![1].sent = Forward(others[1].sent, pending[1])]
            /\ UNCHANGED sent
    /\ pc' = "process_next"
    /\ pending' = None
    /\ UNCHANGED <<stdoutLine, clock, inbound, lang_server_path, lang_server_debugging,
                   wsOpen, request, command, child, childStdin, childIn, emitted,
                   finished, closed, startRet, processRet, finishRet, warnings>>

\* a forwarding loop that drops the frame whose send failed and goes on with
\* the next record
WsSendSkipsFailedFrame ==
    /\ pc = "process_send"
    /\ \E r \in UntimedSendOutcomes :
        /\ trace' = Append(trace, Op("ws_send", r))
        /\ CASE r = "ok" ->
                /\ sent' = Forward(sent, pending[1])
                /\ pc' = "process_next"
                /\ pending' = None
                /\ UNCHANGED <<processRet, child>>
             [] r = "io" ->
                /\ pc' = "process_next"
                /\ pending' = None
                /\ UNCHANGED <<sent, processRet, child>>
             [] r = "stalled" ->
                /\ pc' = "stalled"
                /\ UNCHANGED <<sent, pending, processRet, child>>
    /\ UNCHANGED <<others, stdoutLine, clock, inbound, lang_server_path, lang_server_debugging, wsOpen, request,
                   command, childStdin, childIn, emitted, finished, closed,
                   startRet, finishRet, warnings>>


\* ws.send(msg).await.map_err(WSSendIO)?
WsSend ==
    /\ pc = "process_send"
    /\ \E r \in UntimedSendOutcomes :
        /\ trace' = Append(trace, Op("ws_send", r))
        /\ CASE r = "ok" ->
                /\ sent' = Forward(sent, pending[1])
                /\ pc' = "process_next"
                /\ pending' = None
                /\ UNCHANGED <<processRet, child>>
             [] r = "io" ->
                /\ ProcessFails(WSSendIO)
                /\ pending' = None
                /\ UNCHANGED sent
             [] r = "stalled" ->
                /\ pc' = "stalled"
                /\ UNCHANGED <<sent, pending, processRet, child>>
    /\ UNCHANGED <<others, stdoutLine, clock, inbound, lang_server_path, lang_server_debugging, wsOpen, request,
                   command, childStdin, childIn, emitted, finished, closed,
                   startRet, finishRet, warnings>>

-----------------------------------------------------------------------------
(* finish() *)

Warn(message, e) == [level |-> "warn", message |-> message, error |-> e]

WarnShutdown(e) == Warn("failed to shutdown child cleanly", e)

WarnClosed(e) == Warn("failed to cleanly close websocket", e)

IsErr(r) == r.tag = "Err"

\* a match that returns the error of the operation that failed last
FinishMatchLastError(f, c, s) ==
    [ret |-> IF IsErr(s) THEN Err(s.error)
             ELSE IF IsErr(c) THEN Err(c.error)
             ELSE IF IsErr(f) THEN Err(f.error)
             ELSE Ok,
     warns |-> IF IsErr(c) /\ IsErr(s) THEN <<WarnClosed(c.error)>> ELSE <<>>]

\* a match whose last arm forgets the warning about the websocket close
FinishMatchOneWarning(f, c, s) ==
    [ret |-> IF IsErr(f) THEN Err(f.error)
             ELSE IF IsErr(c) THEN Err(c.error)
             ELSE IF IsErr(s) THEN Err(s.error)
             ELSE Ok,
     warns |-> IF IsErr(s) /\ (IsErr(f) \/ IsErr(c)) THEN <<WarnShutdown(s.error)>>
               ELSE IF IsErr(f) /\ IsErr(c) THEN <<WarnClosed(c.error)>>
               ELSE <<>>]

\* a match that logs a failed websocket close and goes on when nothing else
\* failed
FinishMatchCloseTolerated(f, c, s) ==
    [ret |-> IF IsErr(f) THEN Err(f.error)
             ELSE IF IsErr(c) /\ IsErr(s) THEN Err(c.error)
             ELSE IF IsErr(s) THEN Err(s.error)
             ELSE Ok,
     warns |-> (IF IsErr(s) /\ (IsErr(f) \/ IsErr(c)) THEN <<WarnShutdown(s.error)>> ELSE <<>>)
               \o (IF IsErr(c) /\ (IsErr(f) \/ ~IsErr(s)) THEN <<WarnClosed(c.error)>> ELSE <<>>)]

\* a match that never logs the failed websocket close
FinishMatchCloseNeverLogged(f, c, s) ==
    [ret |-> IF IsErr(f) THEN Err(f.error)
             ELSE IF IsErr(c) THEN Err(c.error)
             ELSE IF IsErr(s) THEN Err(s.error)
             ELSE Ok,
     warns |-> IF IsErr(s) /\ (IsErr(f) \/ IsErr(c)) THEN <<WarnShutdown(s.error)>>
               ELSE <<>>]

\* the match (finished, closed, shutdown) of finish(): what it returns and
\* what it logs, in order
FinishMatch(f, c, s) ==
    CASE ~IsErr(f) /\ ~IsErr(c) /\ ~IsErr(s) -> [ret |-> Ok, warns |-> <<>>]
      [] ~IsErr(f) /\ ~IsErr(c) /\ IsErr(s) -> [ret |-> Err(s.error), warns |-> <<>>]
      [] ~IsErr(f) /\ IsErr(c) /\ ~IsErr(s) -> [ret |-> Err(c.error), warns |-> <<>>]
      [] IsErr(f) /\ ~IsErr(c) /\ ~IsErr(s) -> [ret |-> Err(f.error), warns |-> <<>>]
      [] ~IsErr(f) /\ IsErr(c) /\ IsErr(s) ->
            [ret |-> Err(c.error), warns |-> <<WarnShutdown(s.error)>>]
      [] IsErr(f) /\ ~IsErr(c) /\ IsErr(s) ->
            [ret |-> Err(f.error), warns |-> <<WarnShutdown(s.error)>>]
      [] IsErr(f) /\ IsErr(c) /\ ~IsErr(s) ->
            [ret |-> Err(f.error), warns |-> <<WarnClosed(c.error)>>]
      [] IsErr(f) /\ IsErr(c) /\ IsErr(s) ->
            [ret |-> Err(f.error),
             warns |-> <<WarnShutdown(s.error), WarnClosed(c.error)>>]

\* a finish() that propagates the failed send with `?`
WsSendFinishPropagates ==
    /\ pc = "finish"
    /\ \E r \in TimedSendOutcomes :
        /\ trace' = Append(trace, Op("ws_send_finish", r))
        /\ finished' = Some(TimedSendResult(r))
        /\ sent' = IF r = "ok" THEN Append(sent, FinishFrame) ELSE sent
        /\ IF r = "ok"
           THEN pc' = "finish_close" /\ UNCHANGED <<finishRet, child>>
           ELSE /\ pc' = "done"
                /\ finishRet' = TimedSendResult(r)
                /\ child' = DroppedChild(child)
    /\ UNCHANGED <<others, stdoutLine, clock, inbound, lang_server_path, lang_server_debugging, wsOpen, request,
                   command, childStdin, childIn, emitted, pending,
                   closed, startRet, processRet, warnings>>

\* a finish() that closes the transport first and sends Finish afterwards
WsSendFinishAfterClose ==
    /\ pc = "finish"
    /\ \E r \in TimedSendOutcomes :
        /\ trace' = trace \o <<Op("ws_close", "ok"), Op("ws_send_finish", r)>>
        /\ finished' = Some(TimedSendResult(r))
        /\ sent' = IF r = "ok" THEN Append(sent, FinishFrame) ELSE sent
    /\ closed' = Some(Ok)
    /\ wsOpen' = FALSE
    /\ pc' = "finish_shutdown"
    /\ UNCHANGED <<others, stdoutLine, clock, inbound, lang_server_path, lang_server_debugging, request,
                   command, child, childStdin, childIn, emitted, pending,
                   startRet, processRet, finishRet, warnings>>


\* let finished = Self::ws_send_finish(&mut ws).await
WsSendFinish ==
    /\ pc = "finish"
    /\ \E r \in TimedSendOutcomes :
        /\ trace' = Append(trace, Op("ws_send_finish", r))
        /\ finished' = Some(TimedSendResult(r))
        /\ sent' = IF r = "ok" THEN Append(sent, FinishFrame) ELSE sent
    /\ pc' = "finish_close"
    /\ UNCHANGED <<others, stdoutLine, clock, inbound, lang_server_path, lang_server_debugging, wsOpen, request,
                   command, child, childStdin, childIn, emitted, pending,
                   closed, startRet, processRet, finishRet, warnings>>

\* a close that sends Finish once more when the send before it did not go
\* through
WsCloseStepSendsFinish ==
    /\ pc = "finish_close"
    /\ \E r \in {"ok", "io"} :
        /\ trace' = Append(trace, Op("ws_close", r))
        /\ closed' = Some(IF r = "ok" THEN Ok ELSE Err(WSClose))
    /\ sent' = IF finished[1] = Ok THEN sent ELSE Append(sent, FinishFrame)
    /\ wsOpen' = FALSE
    /\ pc' = "finish_shutdown"
    /\ UNCHANGED <<others, stdoutLine, clock, inbound, lang_server_path, lang_server_debugging, request,
                   command, child, childStdin, childIn, emitted, pending,
                   finished, startRet, processRet, finishRet, warnings>>


\* let closed = Self::ws_close(ws).await
WsCloseStep ==
    /\ pc = "finish_close"
    /\ \E r \in {"ok", "io"} :
        /\ trace' = Append(trace, Op("ws_close", r))
        /\ closed' = Some(IF r = "ok" THEN Ok ELSE Err(WSClose))
    /\ wsOpen' = FALSE
    /\ pc' = "finish_shutdown"
    /\ UNCHANGED <<others, stdoutLine, clock, inbound, lang_server_path, lang_server_debugging, sent, request,
                   command, child, childStdin, childIn, emitted, pending,
                   finished, startRet, processRet, finishRet, warnings>>

\* what a worker may do once it is signalled
WorkerReactions == {"exits", "exits_uncleanly", "ignores"}

\* process::child_shutdown(child, signal, grace): signals the worker, then
\* waits for it to exit, up to the grace period when there is one and without
\* bound when there is none; Pending is a wait that never ends
child_shutdown(signal, grace, reaction) ==
    CASE reaction = "exits" -> Ok
      [] reaction = "exits_uncleanly" -> Err(ChildShutdown)
      [] reaction = "ignores" -> IF grace = None THEN Pending ELSE Err(ChildShutdown)

\* how the trace records the outcome of child_shutdown
ShutdownRes(shutdown) ==
    CASE shutdown = Ok -> "ok"
      [] shutdown = Pending -> "hung"
      [] OTHER -> "failed"

\* the worker after child_shutdown came back
ChildAfter(c, shutdown, reaction) ==
    IF reaction = "ignores" THEN c
    ELSE IF shutdown = Ok THEN "exited" ELSE "shutdown_failed"

\* the last step of finish() with the given arguments of child_shutdown
ChildShutdownWith(signal, grace) ==
    /\ pc = "finish_shutdown"
    /\ \E reaction \in WorkerReactions :
        LET shutdown == child_shutdown(signal, grace, reaction)
            outcome == FinishMatch(finished[1], closed[1], shutdown)
        IN  /\ trace' = Append(trace, Op("child_shutdown", ShutdownRes(shutdown)))
            /\ IF shutdown = Pending
               THEN /\ pc' = "hung"
                    /\ UNCHANGED <<child, finishRet, warnings>>
               ELSE /\ pc' = "done"
                    /\ child' = ChildAfter(child, shutdown, reaction)
                    /\ finishRet' = outcome.ret
                    /\ warnings' = warnings \o outcome.warns
    /\ UNCHANGED <<others, stdoutLine, clock, inbound, lang_server_path, lang_server_debugging,
                   sent, wsOpen, request, command, childStdin, childIn, emitted,
                   pending, finished, closed, startRet, processRet>>

\* a termination that gives the worker a grace period and then gives up
ChildShutdownStepGrace == ChildShutdownWith(Some("SIGTERM"), Some(10))

\* let shutdown = process::child_shutdown(&mut self.child, Some(SIGTERM), None)
\* .await; drop(self.child); match (finished, closed, shutdown) { .. }
ChildShutdownStep == ChildShutdownWith(Some("SIGTERM"), None)

-----------------------------------------------------------------------------
(* Several executions, one per connection: the one that runs has its values *)
(* in the variables, the others wait at an await point                      *)

\* most records the worker of one execution emits when several executions run
PairRecords == 1

\* the variables of the execution that runs, as a record
Own ==
    [lang_server_path |-> lang_server_path,
     lang_server_debugging |-> lang_server_debugging, pc |-> pc, sent |-> sent,
     wsOpen |-> wsOpen, inbound |-> inbound, request |-> request,
     command |-> command, child |-> child, childStdin |-> childStdin,
     childIn |-> childIn, stdoutLine |-> stdoutLine, emitted |-> emitted,
     pending |-> pending, finished |-> finished, closed |-> closed,
     startRet |-> startRet, processRet |-> processRet, finishRet |-> finishRet,
     warnings |-> warnings, clock |-> clock, trace |-> trace]

\* QualificationCheckExecution as execute() builds it, with a transport that
\* is its connection's own
Unstarted(e) ==
    [lang_server_path |-> e.path, lang_server_debugging |-> e.debugging,
     pc |-> "start", sent |-> <<>>, wsOpen |-> TRUE, inbound |-> None,
     request |-> None, command |-> None, child |-> "none", childStdin |-> "none",
     childIn |-> <<>>, stdoutLine |-> None, emitted |-> <<>>, pending |-> None,
     finished |-> None, closed |-> None, startRet |-> Pending,
     processRet |-> Pending, finishRet |-> Pending, warnings |-> <<>>,
     clock |-> e.clock, trace |-> <<>>]

\* the execution that runs is x
Loaded(x) ==
    /\ lang_server_path = x.lang_server_path
    /\ lang_server_debugging = x.lang_server_debugging
    /\ pc = x.pc
    /\ sent = x.sent
    /\ wsOpen = x.wsOpen
    /\ inbound = x.inbound
    /\ request = x.request
    /\ command = x.command
    /\ child = x.child
    /\ childStdin = x.childStdin
    /\ childIn = x.childIn
    /\ stdoutLine = x.stdoutLine
    /\ emitted = x.emitted
    /\ pending = x.pending
    /\ finished = x.finished
    /\ closed = x.closed
    /\ startRet = x.startRet
    /\ processRet = x.processRet
    /\ finishRet = x.finishRet
    /\ warnings = x.warnings
    /\ clock = x.clock
    /\ trace = x.trace

\* the runtime: the task that runs is suspended at its await point and the
\* task of another connection goes on from its own
Switch ==
    \E i \in 1..Len(others) :
        /\ others' = [others EXCEPT ![i] = Own]
        /\ lang_server_path' = others[i].lang_server_path
        /\ lang_server_debugging' = others[i].lang_server_debugging
        /\ pc' = others[i].pc
        /\ sent' = others[i].sent
        /\ wsOpen' = others[i].wsOpen
        /\ inbound' = others[i].inbound
        /\ request' = others[i].request
        /\ command' = others[i].command
        /\ child' = others[i].child
        /\ childStdin' = others[i].childStdin
        /\ childIn' = others[i].childIn
        /\ stdoutLine' = others[i].stdoutLine
        /\ emitted' = others[i].emitted
        /\ pending' = others[i].pending
        /\ finished' = others[i].finished
        /\ closed' = others[i].closed
        /\ startRet' = others[i].startRet
        /\ processRet' = others[i].processRet
        /\ finishRet' = others[i].finishRet
        /\ warnings' = others[i].warnings
        /\ clock' = others[i].clock
        /\ trace' = others[i].trace

\* the outcomes, caller events and worker records of the executions that run
\* side by side: one way for each operation to succeed, one to fail, and the
\* waits that do not end
PairOutcomes == {"ok", "io", "eof", "failed", "stalled", "hung", "Text", "None"}

PairScope ==
    /\ \A i \in 1..Len(trace) : trace[i].res \in PairOutcomes
    /\ inbound \in {None, Some([ev |-> "None"]),
                    Some([ev |-> "Text",
                          text |-> Some([executionId |-> "e1", handler |-> "check"])])}
    /\ Len(emitted) <= PairRecords
    /\ \A i \in 1..Len(emitted) : emitted[i] \in {OutputA, ResultSuccess}

\* two connections accepted, an execution built for each
InitPair ==
    \E e1, e2 \in Executions :
        /\ e1.clock > 0
        /\ e2.clock < 0
        /\ Loaded(Unstarted(e1))
        /\ others = <<Unstarted(e2)>>

-----------------------------------------------------------------------------
(* The translation of one line of the worker's stdout, on its own: the line *)
(* and the clock are the inputs, the two map closures of process() are      *)
(* applied to them once                                                     *)

\* every value of the clock
ClockValues == I64_MIN..I64_MAX

\* records with every key their type has
FullOutput == FrameOutputB

FullSuccess ==
    [protocol |-> "result", status |-> "success", executionId |-> "e1",
     qualified |-> FALSE, title |-> "t", link |-> "https://l",
     subChecks |-> <<[name |-> "s", status |-> "failure"]>>, message |-> "m"]

FullFailure ==
    [protocol |-> "result", status |-> "failure", executionId |-> "e1",
     error |-> [kind |-> "UserCodeException", message |-> "boom"]]

FullFrames == {FullOutput, FullSuccess, FullFailure}

\* the object without one of its keys
WithoutKey(json, key) == [k \in DOMAIN json \ {key} |-> json[k]]

\* the object with one more key
WithKey(json, key, v) ==
    [k \in DOMAIN json \cup {key} |-> IF k = key THEN v ELSE json[k]]

\* the lines translated: the worker's own, the full records, each full record
\* with one key missing, with a key missing in its error, with a timestamp of
\* the worker's, and with a tag that is not of the protocol
TranslateFrames ==
    WorkerFrames
        \cup FullFrames
        \cup UNION {{WithoutKey(f, k) : k \in DOMAIN f} : f \in FullFrames}
        \cup {WithKey(FullFailure, "error", WithoutKey(FullFailure.error, k)) :
                k \in {"kind", "message"}}
        \cup {WithKey(f, "timestamp", 99) : f \in FullFrames}
        \cup {WithKey(FullOutput, "protocol", "log"),
              WithKey(FullSuccess, "status", "skipped")}

InitTranslate ==
    /\ clock \in ClockValues
    /\ stdoutLine \in {Some(f) : f \in TranslateFrames}
    /\ pc = "translate"
    /\ lang_server_path = "/usr/local/bin/lang-js"
    /\ lang_server_debugging = FALSE
    /\ sent = <<>>
    /\ wsOpen = TRUE
    /\ inbound = None
    /\ request = None
    /\ command = None
    /\ child = "running"
    /\ childStdin = "closed"
    /\ childIn = <<>>
    /\ emitted = <<>>
    /\ pending = None
    /\ finished = None
    /\ closed = None
    /\ startRet = Ok
    /\ processRet = Pending
    /\ finishRet = Pending
    /\ warnings = <<>>
    /\ trace = <<>>
    /\ others = <<>>

\* the two map closures of process() on one item of the stdout stream
Translate ==
    /\ pc = "translate"
    /\ LET ls_result == LangServerDecode(stdoutLine[1]) IN
       IF ls_result.tag = "Ok"
       THEN /\ emitted' = <<ls_result.value>>
            /\ pending' = Some(WsText(MessageFrom(ls_result.value, clock)))
            /\ UNCHANGED processRet
       ELSE /\ processRet' = Err(ChildRecvIO)
            /\ UNCHANGED <<emitted, pending>>
    /\ pc' = "translated"
    /\ UNCHANGED <<others, stdoutLine, clock, inbound, lang_server_path, lang_server_debugging,
                   sent, wsOpen, request, command, child, childStdin, childIn,
                   finished, closed, startRet, finishRet, warnings, trace>>

NextTranslate == Translate

SpecTranslate == InitTranslate /\ [][NextTranslate]_vars

-----------------------------------------------------------------------------

\* the phase value that is live: QualificationCheckExecution (Unstarted),
\* QualificationCheckServerExecutionStarted, ..Closing, none after finish()
\* (Done), none after an entry point returned Err (Dropped)
Phase ==
    CASE pc \in {"start", "start_read", "start_spawn", "start_stdin",
                 "start_write", "start_close", "start_stdout"} -> "Unstarted"
      [] pc \in {"process_next", "process_send", "stalled"} -> "Started"
      [] pc \in {"finish", "finish_close", "finish_shutdown", "hung"} -> "Closing"
      [] pc = "done" -> "Done"
      [] pc = "aborted" -> "Dropped"

Next ==
    \/ WsSendStart
    \/ CallerEvent
    \/ ReadRequest
    \/ SpawnChild
    \/ TakeStdin
    \/ ChildSendRequest
    \/ ChildCloseStdin
    \/ TakeStdout
    \/ NextRecord
    \/ NextError
    \/ NextEof
    \/ WsSend
    \/ WsSendFinish
    \/ WsCloseStep
    \/ ChildShutdownStep

Spec == Init /\ [][Next]_vars

\* ws.next() of read_request comes back once the caller's stream has an item
\* or has ended; the Finish send of finish() is under the deadline of
\* time::timeout, so the attempt, once finish() is entered, comes to an end
SpecLive == Spec /\ WF_vars(ReadRequest) /\ WF_vars(WsSendFinish)

\* several executions: a step of the one that runs, or a switch to another
NextPair ==
    \/ WsSendStart /\ PairScope'
    \/ CallerEvent /\ PairScope'
    \/ ReadRequest /\ PairScope'
    \/ SpawnChild /\ PairScope'
    \/ TakeStdin /\ PairScope'
    \/ ChildSendRequest /\ PairScope'
    \/ ChildCloseStdin /\ PairScope'
    \/ TakeStdout /\ PairScope'
    \/ NextRecord /\ PairScope'
    \/ NextError /\ PairScope'
    \/ NextEof /\ PairScope'
    \/ WsSend /\ PairScope'
    \/ WsSendFinish /\ PairScope'
    \/ WsCloseStep /\ PairScope'
    \/ ChildShutdownStep /\ PairScope'
    \/ Switch

SpecPair == InitPair /\ [][NextPair]_vars

-----------------------------------------------------------------------------
(* Vocabulary of the properties *)

Protocol(frame) == frame.json.protocol

IsPayload(frame) == Protocol(frame) \in {"outputStream", "result"}

\* the frames process() forwarded
Payloads(frames) == SelectSeq(frames, IsPayload)

Count(frames, protocol) ==
    Cardinality({i \in 1..Len(frames) : Protocol(frames[i]) = protocol})

\* a record with its timestamp left out
WithoutTimestamp(r) == [f \in DOMAIN r \ {"timestamp"} |-> r[f]]

\* what the caller must get for a worker record: the same variant and the
\* same payload fields, whatever the timestamp
ExpectedOutput(rec) ==
    [executionId |-> rec.executionId, stream |-> rec.stream, level |-> rec.level,
     group |-> rec.group, message |-> rec.message, data |-> rec.data]

ExpectedResult(rec) ==
    IF rec.status = "success"
    THEN [status |-> "success", executionId |-> rec.executionId,
          qualified |-> rec.qualified, message |-> rec.message,
          title |-> rec.title, link |-> rec.link, subChecks |-> rec.subChecks]
    ELSE [status |-> "failure", executionId |-> rec.executionId, error |-> rec.error]

Carries(frame, rec) ==
    /\ frame.frame = "Text"
    /\ IF rec.protocol = "output"
       THEN /\ Protocol(frame) = "outputStream"
            /\ WithoutTimestamp(frame.json.payload) = ExpectedOutput(rec)
       ELSE /\ Protocol(frame) = "result"
            /\ WithoutTimestamp(frame.json.payload) = ExpectedResult(rec)

\* Start, OutputStream*, Result?, Finish? : the order of the envelope kinds
Rank(frame) ==
    CASE Protocol(frame) = "start" -> 0
      [] Protocol(frame) = "outputStream" -> 1
      [] Protocol(frame) = "result" -> 2
      [] Protocol(frame) = "finish" -> 3

EnvelopeOrder(frames) ==
    /\ \A i, j \in 1..Len(frames) : i < j => Rank(frames[i]) <= Rank(frames[j])
    /\ Count(frames, "start") = 1
    /\ Count(frames, "result") <= 1
    /\ Count(frames, "finish") <= 1

\* the worker emitted Output records and then at most one Result record
WorkerOrder(records) ==
    \A i \in 1..Len(records) : records[i].protocol = "result" => i = Len(records)

EndedNormally == pc = "done" /\ finishRet = Ok

-----------------------------------------------------------------------------
(* Envelope ordering *)

\* C1 as stated: whatever the worker emits, the transport gets Start,
\* OutputStream*, at most one Result, and Finish last when the execution
\* ends normally.
C1_OrderForEveryWorker ==
    /\ sent # <<>> => EnvelopeOrder(sent)
    /\ EndedNormally => Protocol(sent[Len(sent)]) = "finish"

\* C1 amended: exactly one Start first; then one envelope per worker record
\* forwarded, of the record's kind and in emission order; Finish at most once
\* and only last, and present as last when the execution ends normally. The
\* order OutputStream* then at most one Result holds whenever the worker's
\* own emission has that order.
C1_OrderFollowsWorker ==
    /\ sent # <<>> =>
        /\ sent[1] = StartFrame
        /\ Count(sent, "start") = 1
        /\ Count(sent, "finish") <= 1
        /\ \A i \in 1..Len(sent) : Protocol(sent[i]) = "finish" => i = Len(sent)
        /\ Len(Payloads(sent)) <= Len(emitted)
        /\ \A i \in 1..Len(Payloads(sent)) : Carries(sent[i + 1], emitted[i])
        /\ WorkerOrder(emitted) => EnvelopeOrder(sent)
    /\ EndedNormally =>
        /\ Len(sent) = Len(emitted) + 2
        /\ sent[Len(sent)] = FinishFrame

\* a run that ended normally after the worker emitted an Output and a Result
C1_Witness ==
    /\ EndedNormally
    /\ Len(emitted) = 2
    /\ emitted[1].protocol = "output"
    /\ emitted[2].protocol = "result"

\* C2: the worker emits [Output A, Output B, Result Success], closes its
\* output and nothing fails: the transport has exactly Start,
\* OutputStream(A), OutputStream(B), Result(Success), Finish.
C2_ExactSequence ==
    (EndedNormally /\ emitted = <<OutputA, OutputB, ResultSuccess>>) =>
        /\ Len(sent) = 5
        /\ \A i \in 1..5 : sent[i].frame = "Text"
        /\ sent[1].json = MessageStart
        /\ Protocol(sent[2]) = "outputStream"
        /\ WithoutTimestamp(sent[2].json.payload) = ExpectedOutput(OutputA)
        /\ Protocol(sent[3]) = "outputStream"
        /\ WithoutTimestamp(sent[3].json.payload) = ExpectedOutput(OutputB)
        /\ Protocol(sent[4]) = "result"
        /\ WithoutTimestamp(sent[4].json.payload) = ExpectedResult(ResultSuccess)
        /\ sent[5].json = MessageFinish

C2_Witness == EndedNormally /\ emitted = <<OutputA, OutputB, ResultSuccess>>

\* C3: during process() the forwarded frames are the translations of a prefix
\* of the worker's records, in order; a record is pulled only when every
\* record pulled before it has been sent, and at most one frame is in flight.
C3_FifoOneInFlight ==
    LET n == Len(Payloads(sent)) IN
    /\ n <= Len(emitted)
    /\ Len(emitted) - n <= 1
    /\ sent # <<>> => Payloads(sent) = SubSeq(sent, 2, n + 1)
    /\ \A i \in 1..n : Carries(sent[i + 1], emitted[i])
    /\ pc = "process_next" => n = Len(emitted) /\ pending = None
    /\ pc = "process_send" =>
        /\ n = Len(emitted) - 1
        /\ pending # None
        /\ Carries(pending[1], emitted[Len(emitted)])

\* two different records forwarded and a third one in flight
C3_Witness ==
    /\ pc = "process_send"
    /\ Len(emitted) = 3
    /\ emitted[1] # emitted[2]
    /\ Len(Payloads(sent)) = 2

\* C4 as stated: once a Result envelope has been sent, no OutputStream and no
\* second Result is sent, whatever the worker emits afterwards.
C4_NothingAfterResult ==
    \A i, j \in 1..Len(sent) :
        (i < j /\ Protocol(sent[i]) = "result") => ~IsPayload(sent[j])

\* C4 amended: each Result record the worker emits is forwarded exactly once,
\* at its place in the emission order; the Result envelope is the only one
\* and the last payload-bearing message whenever the worker emits its Result
\* as its last record. Records the worker emits after a Result are forwarded
\* like any other.
C4_ResultOncePerRecord ==
    LET n == Len(Payloads(sent)) IN
    /\ n <= Len(emitted)
    /\ \A i \in 1..n :
        (Protocol(Payloads(sent)[i]) = "result") <=> (emitted[i].protocol = "result")
    /\ WorkerOrder(emitted) =>
        /\ Count(sent, "result") <= 1
        /\ C4_NothingAfterResult

\* the Result was forwarded and the worker closed its output after it
C4_Witness ==
    /\ pc = "finish"
    /\ Len(emitted) = 2
    /\ emitted[2].protocol = "result"
    /\ Count(sent, "result") = 1

-----------------------------------------------------------------------------
(* Shutdown *)

Attempts(op) == Cardinality({i \in 1..Len(trace) : trace[i].op = op})

Attempted(op) == Attempts(op) >= 1

\* the position in the trace of the only attempt of op
At(op) == CHOOSE i \in 1..Len(trace) : trace[i].op = op

\* the three results finish() matches on, once it has them
ShutdownResult ==
    IF trace[At("child_shutdown")].res = "ok" THEN Ok ELSE Err(ChildShutdown)

FinishResults == <<finished[1], closed[1], ShutdownResult>>

FailedResults == {i \in 1..3 : IsErr(FinishResults[i])}

\* C5: in finish() the Finish send, the transport close and the worker
\* termination are each attempted, whatever the outcome of the earlier ones.
C5_AllThreeAttempted ==
    /\ (Attempted("ws_send_finish") /\ pc \in {"finish_shutdown", "done", "aborted"}) =>
        Attempts("ws_close") = 1
    /\ (Attempted("ws_send_finish") /\ pc \in {"done", "aborted"}) =>
        Attempts("child_shutdown") = 1
    /\ finishRet # Pending =>
        /\ Attempts("ws_send_finish") = 1
        /\ Attempts("ws_close") = 1
        /\ Attempts("child_shutdown") = 1

\* finish() has returned after the Finish send and the close both failed
C5_Witness ==
    /\ pc = "done"
    /\ IsErr(finished[1])
    /\ IsErr(closed[1])
    /\ Attempted("child_shutdown")

\* C6: finish() returns the error of the first failed operation in the order
\* Finish send, transport close, worker termination; one error, never a
\* compound of several.
C6_HighestPriorityError ==
    pc = "done" =>
        LET f == FinishResults[1]
            c == FinishResults[2]
            s == FinishResults[3]
        IN  /\ finishRet = IF IsErr(f) THEN f
                           ELSE IF IsErr(c) THEN c
                           ELSE IF IsErr(s) THEN s
                           ELSE Ok
            /\ IsErr(finishRet) =>
                finishRet.error \in
                    {JSONSerialize, SendTimeout, WSSendIO, WSClose, ChildShutdown}

\* the close and the termination failed, the Finish send did not
C6_Witness ==
    /\ pc = "done"
    /\ FailedResults = {2, 3}
    /\ finishRet = Err(WSClose)

\* C7: finish() logs one warning for each operation that failed and whose
\* error is not the returned one, and no other: failed operations minus one
\* warnings; when all three fail, the Finish-send error is returned with two
\* warnings, one for the close and one for the termination.
C7_WarningsForTheRest ==
    pc = "done" =>
        LET rest == {i \in FailedResults : FinishResults[i] # finishRet}
            warned == {warnings[k].error : k \in 1..Len(warnings)}
        IN  /\ Len(warnings) = IF FailedResults = {} THEN 0
                               ELSE Cardinality(FailedResults) - 1
            /\ Cardinality(warned) = Len(warnings)
            /\ warned = {FinishResults[i].error : i \in rest}
            /\ \A k \in 1..Len(warnings) :
                /\ warnings[k].level = "warn"
                /\ warnings[k].error = WSClose =>
                    warnings[k].message = "failed to cleanly close websocket"
                /\ warnings[k].error = ChildShutdown =>
                    warnings[k].message = "failed to shutdown child cleanly"
            /\ FailedResults = {1, 2, 3} =>
                /\ finishRet = FinishResults[1]
                /\ warned = {WSClose, ChildShutdown}

\* all three operations failed
C7_Witness ==
    /\ pc = "done"
    /\ FailedResults = {1, 2, 3}
    /\ Len(warnings) = 2

\* C8: finish() returns success exactly when the Finish send, the transport
\* close and the worker termination all succeeded.
C8_OkIffAllSucceeded ==
    pc = "done" => (finishRet = Ok <=> FailedResults = {})

\* only the transport close failed
C8_Witness ==
    /\ pc = "done"
    /\ FailedResults = {2}
    /\ IsErr(finishRet)

\* C9: when process() fails mid-stream, the Finish send, the transport close
\* and the worker termination are still attempted for that execution.
C9_CleanupAfterProcessFailure ==
    (pc \in {"done", "aborted"} /\ IsErr(processRet)) =>
        /\ Attempted("ws_send_finish")
        /\ Attempted("ws_close")
        /\ Attempted("child_shutdown")

-----------------------------------------------------------------------------
(* Failures of start() *)

SpawnFailed == trace # <<>> /\ trace[Len(trace)] = Op("spawn", "io")

\* C10: when the worker fails to spawn, start() fails with the spawn error
\* carrying the attempted worker path, the transport has received the Start
\* acknowledgement and nothing else, and no worker process or pipe exists.
C10_SpawnFailure ==
    /\ SpawnFailed =>
        /\ startRet = Err(ChildSpawn(lang_server_path))
        /\ pc = "aborted"
        /\ sent = <<StartFrame>>
        /\ child = "none"
        /\ childStdin = "none"
        /\ childIn = <<>>
    /\ (IsErr(startRet) /\ startRet.error.kind = "ChildSpawn") => SpawnFailed

C10_Witness == SpawnFailed /\ IsErr(startRet) /\ command # None

-----------------------------------------------------------------------------
(* Lifecycle of the worker and of start() *)

Ended == pc \in {"done", "aborted"}

Spawned == \E i \in 1..Len(trace) : trace[i] = Op("spawn", "ok")

\* C11: in every end state of an execution that spawned a worker, the
\* termination of the worker has been requested.
C11_WorkerReapedAtEnd ==
    (Ended /\ Spawned) => (Attempted("child_shutdown") /\ child # "orphaned")

\* the steps of start(), in the order of its body
StartSteps ==
    <<"ws_send_start", "ws_recv", "spawn", "take_stdin", "child_send",
      "child_close", "take_stdout">>

StartOps == {StartSteps[i] : i \in 1..Len(StartSteps)}

IsStartStep(entry) == entry.op \in StartOps

\* the steps start() has attempted so far
StartTrace == SelectSeq(trace, IsStartStep)

\* the step of start() recorded as entry succeeded
StepOk(entry) ==
    IF entry.op = "ws_recv" THEN request # None ELSE entry.res = "ok"

\* C12: start() attempts send Start, read one request, spawn, write the
\* request, half-close the worker's input in that order, each at most once;
\* the first step that fails is the last one attempted and start() returns
\* its error without a Started value.
C12_StartOrderAndAbort ==
    LET steps == StartTrace IN
    /\ Len(steps) <= Len(StartSteps)
    /\ \A i \in 1..Len(steps) :
        /\ steps[i].op = StartSteps[i]
        /\ ~StepOk(steps[i]) =>
            /\ i = Len(steps)
            /\ IsErr(startRet)
            /\ pc = "aborted"
            /\ ~Attempted("try_next")
    /\ startRet = Ok <=>
        /\ Len(steps) = Len(StartSteps)
        /\ \A i \in 1..Len(steps) : StepOk(steps[i])
    /\ Attempted("try_next") => startRet = Ok

\* the write of the request timed out: the half-close is never attempted
C12_Witness ==
    /\ trace # <<>>
    /\ trace[Len(trace)] = Op("child_send", "timeout")
    /\ pc = "aborted"

-----------------------------------------------------------------------------
(* Errors of the transport *)

\* C13: reading the request, a frame that is not text gives
\* UnexpectedMessageType, a stream that ended gives WSRecvClosed, a receive
\* error gives WSRecvIO, a text that is no request gives JSONDeserialize, and
\* only a text frame holding a request gives a request.
C13_ReadRequestErrors ==
    /\ (inbound # None /\ Attempted("ws_recv")) =>
        LET event == inbound[1] IN
        /\ event.ev \in {"Binary", "Close"} =>
            /\ request = None
            /\ startRet = Err([kind |-> "UnexpectedMessageType", message |-> event])
        /\ event.ev = "None" => request = None /\ startRet = Err(WSRecvClosed)
        /\ event.ev = "Error" => request = None /\ startRet = Err(WSRecvIO)
        /\ (event.ev = "Text" /\ event.text = None) =>
            request = None /\ startRet = Err(JSONDeserialize)
        /\ (event.ev = "Text" /\ event.text # None) =>
            /\ request = event.text
            /\ (IsErr(startRet) =>
                startRet.error.kind \notin
                    {"UnexpectedMessageType", "WSRecvClosed", "WSRecvIO",
                     "JSONDeserialize"})
    /\ request # None => (inbound # None /\ inbound[1].ev = "Text")
    /\ Attempted("ws_recv") => inbound # None

\* the caller's stream ended before any message
C13_Witness == inbound = Some([ev |-> "None"]) /\ pc = "aborted"


TransportSends == {"ws_send_start", "ws_send", "ws_send_finish"}

\* C14: every transport send attempt (Start, each streamed message, Finish)
\* runs under the two-second deadline, so none of them waits forever on a
\* caller that never accepts the frame.
C14_EverySendBounded ==
    \A i \in 1..Len(trace) :
        trace[i].op \in TransportSends =>
            /\ SendDeadline(trace[i].op) = Some(2)
            /\ trace[i].res # "stalled"

\* what the caller of the entry point got for the i-th operation of the trace
Reported(i) ==
    CASE trace[i].op = "ws_send_start" -> startRet
      [] trace[i].op = "ws_send" -> processRet
      [] trace[i].op = "ws_send_finish" -> finished[1]

\* C15: a transport send that runs into the deadline is reported as
\* SendTimeout and one that fails in the transport as WSSendIO, never the
\* other way round; a SendTimeout or WSSendIO that is reported comes from
\* such an attempt.
C15_TimeoutAndIoApart ==
    /\ \A i \in 1..Len(trace) :
        trace[i].op \in TransportSends =>
            /\ trace[i].res = "timeout" => Reported(i) = Err(SendTimeout)
            /\ trace[i].res = "io" => Reported(i) = Err(WSSendIO)
            /\ (trace[i].res = "ok" /\ trace[i].op = "ws_send_finish") =>
                Reported(i) = Ok
    /\ \A r \in {startRet, processRet} \cup {finished[k] : k \in 1..Len(finished)} :
        /\ (IsErr(r) /\ r.error = WSSendIO) =>
            \E i \in 1..Len(trace) :
                trace[i].op \in TransportSends /\ trace[i].res = "io"
        /\ (IsErr(r) /\ r.error = SendTimeout) =>
            \E i \in 1..Len(trace) : trace[i].res = "timeout"

\* the Finish send ran into the deadline
C15_Witness ==
    /\ finished = Some(Err(SendTimeout))
    /\ trace[Len(trace)] = Op("ws_send_finish", "timeout")

-----------------------------------------------------------------------------
(* End of the worker's output *)

EofSeen == \E i \in 1..Len(trace) : trace[i] = Op("try_next", "eof")

NoResultEmitted == \A i \in 1..Len(emitted) : emitted[i].protocol # "result"

C16_ClosingAfterEof ==
    (EofSeen /\ NoResultEmitted) =>
        /\ processRet = Ok
        /\ pc \in {"finish", "finish_close", "finish_shutdown", "hung", "done"}
        /\ pc # "finish" => Attempts("ws_send_finish") = 1
        /\ finished = Some(Ok) =>
            /\ sent[Len(sent)] = FinishFrame
            /\ Count(sent, "result") = 0
            /\ Len(sent) = Len(emitted) + 2

\* C16: when the worker's output ends without a Result record, process()
\* returns its Closing value, and the Finish send is then attempted (it does
\* not hang); when that send succeeds the caller's stream ends with Finish.
C16_EofWithoutResult ==
    /\ []C16_ClosingAfterEof
    /\ (EofSeen /\ NoResultEmitted) ~> Attempted("ws_send_finish")

\* the worker emitted Output records only and Finish was delivered
C16_Witness ==
    /\ EofSeen
    /\ NoResultEmitted
    /\ Len(emitted) = 2
    /\ finished = Some(Ok)

-----------------------------------------------------------------------------
(* Phases *)

PhaseSteps ==
    {<<"Unstarted", "Started">>, <<"Started", "Closing">>, <<"Closing", "Done">>,
     <<"Unstarted", "Dropped">>, <<"Started", "Dropped">>}

C17_PhaseValues ==
    /\ Attempted("try_next") => startRet = Ok
    /\ Attempted("ws_send_finish") => processRet = Ok
    /\ Phase = "Started" => (startRet = Ok /\ processRet = Pending)
    /\ Phase = "Closing" => (processRet = Ok /\ finishRet = Pending)
    /\ Phase = "Done" <=> finishRet # Pending
    /\ \A op \in {"ws_send_finish", "ws_close", "child_shutdown"} : Attempts(op) <= 1
    /\ child = "running" => Phase \in {"Unstarted", "Started", "Closing"}

\* C17: the phases are traversed in the order Unstarted, Started, Closing,
\* Done: process() runs only on the Started value of a successful start(),
\* finish() only on the Closing value of a successful process() and once, and
\* a running worker is owned by the one phase value that is live.
C17_PhaseOrder ==
    /\ []C17_PhaseValues
    /\ [][Phase' = Phase \/ <<Phase, Phase'>> \in PhaseSteps]_vars

\* all four phases were traversed
C17_Witness == Phase = "Done" /\ finishRet = Ok /\ Len(emitted) = 1

-----------------------------------------------------------------------------
(* The request on the worker's input *)

Happened(op, res) == \E i \in 1..Len(trace) : trace[i] = Op(op, res)

\* C18: the request read from the caller is written to the worker at most
\* once, exactly once when the write succeeds, and no write or half-close is
\* attempted again after it failed or timed out.
C18_RequestWrittenOnce ==
    /\ Attempts("child_send") <= 1
    /\ Attempts("child_close") <= 1
    /\ Len(childIn) <= 1
    /\ Len(childIn) = 1 <=> Happened("child_send", "ok")
    /\ childIn # <<>> => (request # None /\ childIn = <<request[1]>>)
    /\ \A res \in {"timeout", "io"} :
        /\ Happened("child_send", res) =>
            /\ trace[Len(trace)] = Op("child_send", res)
            /\ childIn = <<>>
            /\ pc = "aborted"
        /\ Happened("child_close", res) =>
            /\ trace[Len(trace)] = Op("child_close", res)
            /\ pc = "aborted"
    /\ startRet = Ok => Len(childIn) = 1

\* the half-close timed out after the request was written
C18_Witness ==
    /\ Happened("child_close", "timeout")
    /\ childIn = <<request[1]>>
    /\ pc = "aborted"

\* C19: the request goes to the worker as one record followed by the
\* half-close of its input, each under its own two-second deadline; a timeout
\* of either is reported as SendTimeout, an I/O failure of either as
\* ChildSendIO, and the half-close is not attempted when the write failed.
C19_WriteThenHalfClose ==
    /\ SendDeadline("child_send") = Some(2)
    /\ SendDeadline("child_close") = Some(2)
    /\ \A i \in 1..Len(trace) :
        trace[i].op \in {"child_send", "child_close"} =>
            /\ trace[i].res \in {"ok", "timeout", "io"}
            /\ trace[i].res = "timeout" => startRet = Err(SendTimeout)
            /\ trace[i].res = "io" => startRet = Err(ChildSendIO)
    /\ Attempted("child_close") =>
        /\ Happened("child_send", "ok")
        /\ At("child_send") + 1 = At("child_close")
        /\ childStdin = "closed"
    /\ (Happened("child_send", "timeout") \/ Happened("child_send", "io")) =>
        ~Attempted("child_close")
    /\ (Happened("child_send", "ok") /\ Happened("child_close", "ok")) =>
        /\ childIn = <<request[1]>>
        /\ childStdin = "closed"
    /\ (IsErr(startRet) /\ startRet.error = ChildSendIO) =>
        (Happened("child_send", "io") \/ Happened("child_close", "io"))

\* the half-close failed in the pipe
C19_Witness ==
    /\ Happened("child_send", "ok")
    /\ Happened("child_close", "io")
    /\ startRet = Err(ChildSendIO)

-----------------------------------------------------------------------------
(* Malformed output of the worker *)

\* C20: a frame of the worker's output that does not decode ends process()
\* with a deserialization error, not the error of a failed read of the
\* worker's output, and the envelopes forwarded before it stay delivered.
C20_MalformedIsDeserializeError ==
    Happened("try_next", "malformed") =>
        /\ IsErr(processRet)
        /\ processRet.error \in {JSONDeserialize, JSONSerialize}
        /\ processRet.error # ChildRecvIO
        /\ Len(Payloads(sent)) = Len(emitted)
        /\ \A i \in 1..Len(emitted) : Carries(sent[i + 1], emitted[i])

-----------------------------------------------------------------------------
(* Translation of one record *)

Translated == pc = "translated" /\ pending # None

\* the timestamp of the envelope that was built
Stamp == pending[1].json.payload.timestamp

\* C21: the timestamp of a translated envelope is a u64 for every value of
\* the clock: 0 when the clock is negative, the clock's value when it is not.
C21_TimestampClamped ==
    Translated =>
        /\ Stamp \in 0..U64_MAX
        /\ clock < 0 => Stamp = 0
        /\ clock >= 0 => Stamp = clock

\* the most negative clock
C21_Witness == Translated /\ clock = I64_MIN /\ Stamp = 0

\* the line that was translated
Line == stdoutLine[1]

OutputFields == {"executionId", "stream", "level", "group", "message", "data"}

SuccessFields ==
    {"executionId", "qualified", "message", "title", "link", "subChecks"}

\* C22: the envelope built from a worker record has the record's variant
\* (OutputStream for Output, Result with the same status for a Result) and
\* every payload field of the record, unchanged; its timestamp is the one
\* the bridge computes from its clock, whatever the worker's line holds.
C22_FieldsPreserved ==
    Translated =>
        LET rec == emitted[1]
            payload == pending[1].json.payload
        IN  /\ Len(emitted) = 1
            /\ Carries(pending[1], rec)
            /\ "timestamp" \notin DOMAIN rec
            /\ Stamp = (IF clock < 0 THEN 0 ELSE clock)
            /\ rec.protocol = "output" =>
                /\ Protocol(pending[1]) = "outputStream"
                /\ DOMAIN payload = OutputFields \cup {"timestamp"}
                /\ \A f \in OutputFields : payload[f] = rec[f]
            /\ (rec.protocol = "result" /\ rec.status = "success") =>
                /\ Protocol(pending[1]) = "result"
                /\ payload.status = "success"
                /\ DOMAIN payload = SuccessFields \cup {"status", "timestamp"}
                /\ \A f \in SuccessFields : payload[f] = rec[f]
            /\ (rec.protocol = "result" /\ rec.status = "failure") =>
                /\ Protocol(pending[1]) = "result"
                /\ payload.status = "failure"
                /\ DOMAIN payload = {"status", "executionId", "error", "timestamp"}
                /\ payload.executionId = rec.executionId
                /\ DOMAIN payload.error = {"kind", "message"}
                /\ payload.error.kind = rec.error.kind
                /\ payload.error.message = rec.error.message

\* a Failure whose line carries a timestamp of the worker's, translated at a
\* clock that differs from it
C22_Witness ==
    /\ Translated
    /\ emitted[1].protocol = "result"
    /\ emitted[1].status = "failure"
    /\ "timestamp" \in DOMAIN Line
    /\ Stamp # Line.timestamp

-----------------------------------------------------------------------------
(* Lines without executionId *)

\* the line has the tags of the given kind of record
IsOutputLine == Has(Line, {"protocol"}) /\ Line.protocol = "output"

IsResultLine(status) ==
    /\ Has(Line, {"protocol", "status"})
    /\ Line.protocol = "result"
    /\ Line.status = status

NoExecutionId == "executionId" \notin DOMAIN Line

\* the line was refused: no record, no envelope, process() fails
Rejected == emitted = <<>> /\ pending = None /\ IsErr(processRet)

\* C29: a failure result without executionId (its error complete) is decoded
\* and translated to a Failure envelope whose execution id is empty; a
\* success result or an output record without executionId is refused.
C29_FailureIdDefaults ==
    (pc = "translated" /\ NoExecutionId) =>
        /\ (IsResultLine("failure") /\ Has(Line, {"error"})
                /\ Has(Line.error, {"kind", "message"})) =>
            /\ pending # None
            /\ processRet = Pending
            /\ Protocol(pending[1]) = "result"
            /\ pending[1].json.payload.status = "failure"
            /\ pending[1].json.payload.executionId = ""
            /\ pending[1].json.payload.error = Line.error
        /\ (IsResultLine("success") \/ IsOutputLine) => Rejected

\* the worker's failure line without executionId went through
C29_Witness ==
    /\ pc = "translated"
    /\ Line = FrameFailure
    /\ NoExecutionId
    /\ pending # None

-----------------------------------------------------------------------------
(* A failed close of the transport *)

CloseLogged == \E k \in 1..Len(warnings) : warnings[k] = WarnClosed(WSClose)

\* C23 as stated: when the Finish send and the worker termination succeed
\* and only the close fails, the failure is logged and finish() does not
\* return an error.
C23_CloseFailureRecoverable ==
    (pc = "done" /\ FailedResults = {2}) => (finishRet = Ok /\ CloseLogged)

\* C23 amended: when only the close fails, finish() returns the close error
\* (WSClose) and logs nothing; a failed close always makes the outcome an
\* error, and it is logged as a warning instead of being returned exactly
\* when the Finish send failed too.
C23_CloseFailureReturned ==
    pc = "done" =>
        /\ FailedResults = {2} => (finishRet = Err(WSClose) /\ warnings = <<>>)
        /\ 2 \in FailedResults => IsErr(finishRet)
        /\ (2 \in FailedResults /\ 1 \notin FailedResults) => finishRet = Err(WSClose)
        /\ CloseLogged <=> {1, 2} \subseteq FailedResults
        /\ CloseLogged => finishRet = finished[1]

\* only the close failed: its error is what finish() returned, unlogged
C23_Witness ==
    /\ pc = "done"
    /\ finished = Some(Ok)
    /\ closed = Some(Err(WSClose))
    /\ child = "exited"
    /\ finishRet = Err(WSClose)
    /\ warnings = <<>>

-----------------------------------------------------------------------------
(* The return of finish() *)

WorkerGone == child \in {"exited", "shutdown_failed"}

\* C24: finish() has returned only when the Finish send, the transport close
\* and the worker termination have all come back, and so only when the
\* worker has exited; termination is asked with SIGTERM and waited for
\* without bound, so against a worker that ignores the signal finish() does
\* not return.
C24_ReturnsAfterWorkerExit ==
    /\ finishRet # Pending =>
        /\ pc = "done"
        /\ finished # None
        /\ closed # None
        /\ Attempts("child_shutdown") = 1
        /\ trace[Len(trace)].op = "child_shutdown"
        /\ trace[Len(trace)].res \in {"ok", "failed"}
        /\ WorkerGone
    /\ finishRet = Ok => child = "exited"
    /\ pc = "hung" <=> Happened("child_shutdown", "hung")
    /\ Happened("child_shutdown", "hung") =>
        /\ finishRet = Pending
        /\ child = "running"
        /\ finished # None
        /\ closed # None

\* the Finish send and the close went well and the worker ignores SIGTERM:
\* finish() is stuck in child_shutdown
C24_Witness ==
    /\ pc = "hung"
    /\ finished = Some(Ok)
    /\ closed = Some(Ok)
    /\ child = "running"
    /\ finishRet = Pending

-----------------------------------------------------------------------------
(* Errors of process() *)

\* an operation of process() that failed
ProcessFailure(entry) ==
    \/ entry.op = "try_next" /\ entry.res \in {"serialize", "io", "malformed"}
    \/ entry = Op("ws_send", "io")

\* the error process() returns for it
ProcessErrorOf(entry) ==
    CASE entry = Op("try_next", "serialize") -> JSONSerialize
      [] entry = Op("ws_send", "io") -> WSSendIO
      [] OTHER -> ChildRecvIO

SendsOk == Cardinality({i \in 1..Len(trace) : trace[i] = Op("ws_send", "ok")})

\* C26: the first operation of process() that fails (a read of the worker's
\* output, a serialization, a transport send) is the last one it attempts:
\* process() returns that error, pulls no further record and sends nothing
\* more; the operation is not tried again.
C26_FirstErrorEndsProcess ==
    /\ \A i \in 1..Len(trace) :
        ProcessFailure(trace[i]) =>
            /\ i = Len(trace)
            /\ pc = "aborted"
            /\ processRet = Err(ProcessErrorOf(trace[i]))
            /\ pending = None
            /\ Len(Payloads(sent)) = SendsOk
            /\ trace[i].op = "ws_send" => SendsOk = Len(emitted) - 1
            /\ trace[i].op = "try_next" => SendsOk \in {Len(emitted), Len(emitted) - 1}
    /\ IsErr(processRet) => (trace # <<>> /\ ProcessFailure(trace[Len(trace)]))

\* the second send failed in the transport, after one envelope went through
C26_Witness ==
    /\ trace # <<>>
    /\ trace[Len(trace)] = Op("ws_send", "io")
    /\ Len(emitted) = 2
    /\ SendsOk = 1
    /\ processRet = Err(WSSendIO)

-----------------------------------------------------------------------------
(* A caller that goes away *)

\* the caller's stream ended before a request came
CallerGone == inbound = Some([ev |-> "None"])

C27_ClosedNotSpawned ==
    (CallerGone /\ Attempted("ws_recv")) =>
        /\ startRet = Err(WSRecvClosed)
        /\ pc = "aborted"
        /\ trace = <<Op("ws_send_start", "ok"), Op("ws_recv", "None")>>
        /\ sent = <<StartFrame>>
        /\ request = None
        /\ child = "none"

\* C27: when the caller's connection goes away while start() waits for the
\* request, the receive comes back (it does not go on waiting) and start()
\* returns WSRecvClosed, having spawned nothing.
C27_DropEndsStart ==
    /\ []C27_ClosedNotSpawned
    /\ CallerGone ~> (startRet = Err(WSRecvClosed))

C27_Witness == CallerGone /\ startRet = Err(WSRecvClosed) /\ pc = "aborted"

-----------------------------------------------------------------------------
(* The launch of the worker *)

\* C28: the worker is launched as <lang_server_path> qualificationcheck, its
\* standard input and output piped; its environment gets DEBUG=* and
\* DEBUG_DEPTH=5 when debugging is enabled and nothing when it is not.
C28_WorkerCommand ==
    /\ Attempted("spawn") <=> command # None
    /\ command # None =>
        LET c == command[1] IN
        /\ c.program = lang_server_path
        /\ Len(c.args) >= 1
        /\ c.args[1] = "qualificationcheck"
        /\ c.stdin = "piped"
        /\ c.stdout = "piped"
        /\ <<"DEBUG", "*">> \in c.env <=> lang_server_debugging
        /\ <<"DEBUG_DEPTH", "5">> \in c.env <=> lang_server_debugging
        /\ c.env \subseteq {<<"DEBUG", "*">>, <<"DEBUG_DEPTH", "5">>}
    /\ Spawned => childStdin \in {"open", "closed"}

\* a worker launched with debugging enabled
C28_Witness ==
    /\ Spawned
    /\ lang_server_debugging
    /\ command[1].env = {<<"DEBUG", "*">>, <<"DEBUG_DEPTH", "5">>}
    /\ child = "running"

\* the Start send or the read of the request did not succeed
NoRequest ==
    \/ trace # <<>> /\ trace[1].op = "ws_send_start" /\ trace[1].res # "ok"
    \/ Attempted("ws_recv") /\ request = None

\* C30: a worker is spawned only after the Start acknowledgement was sent
\* and a request was read and decoded; when the Start send fails or times
\* out, or the read of the request fails, no worker is spawned.
C30_SpawnAfterStartAndRequest ==
    /\ Attempted("spawn") =>
        /\ Attempts("spawn") = 1
        /\ At("spawn") = 3
        /\ trace[1] = Op("ws_send_start", "ok")
        /\ trace[2] = Op("ws_recv", "Text")
        /\ sent # <<>>
        /\ sent[1] = StartFrame
        /\ request # None
        /\ request = inbound[1].text
    /\ child # "none" => Spawned
    /\ NoRequest =>
        /\ ~Attempted("spawn")
        /\ command = None
        /\ child = "none"
        /\ pc = "aborted"
        /\ IsErr(startRet)

\* the worker was spawned, after Start and the request
C30_Witness ==
    /\ pc = "start_stdin"
    /\ child = "running"
    /\ sent = <<StartFrame>>
    /\ request # None

-----------------------------------------------------------------------------
(* Executions side by side *)

\* every execution: the one that runs and the ones that wait
All == <<Own>> \o others

HappenedIn(x, op, res) == \E i \in 1..Len(x.trace) : x.trace[i] = Op(op, res)

\* the results of the operations of x that were attempted with the given name
ResultsIn(x, op) ==
    LET at == SelectSeq(x.trace, LAMBDA entry : entry.op = op)
    IN  [i \in 1..Len(at) |-> at[i].res]

\* the frames the transport of x must hold, from what happened to x alone:
\* Start when its send went through, the translation of the k-th record of
\* its own worker for the k-th streamed send that went through, Finish when
\* its send went through
SentOf(x) ==
    LET forwarded ==
            Cardinality({i \in 1..Len(x.trace) : x.trace[i] = Op("ws_send", "ok")})
    IN  (IF HappenedIn(x, "ws_send_start", "ok") THEN <<StartFrame>> ELSE <<>>)
            \o [k \in 1..forwarded |-> WsText(MessageFrom(x.emitted[k], x.clock))]
            \o (IF HappenedIn(x, "ws_send_finish", "ok") THEN <<FinishFrame>> ELSE <<>>)

\* what start() of x returns, from what happened to x alone
StartRetOf(x) ==
    CASE HappenedIn(x, "take_stdout", "ok") -> Ok
      [] HappenedIn(x, "ws_send_start", "io") -> Err(WSSendIO)
      [] HappenedIn(x, "ws_recv", "None") -> Err(WSRecvClosed)
      [] HappenedIn(x, "spawn", "io") -> Err(ChildSpawn(x.lang_server_path))
      [] HappenedIn(x, "child_send", "io") -> Err(ChildSendIO)
      [] HappenedIn(x, "child_close", "io") -> Err(ChildSendIO)
      [] OTHER -> Pending

\* what process() of x returns
ProcessRetOf(x) ==
    CASE HappenedIn(x, "try_next", "eof") -> Ok
      [] HappenedIn(x, "try_next", "io") -> Err(ChildRecvIO)
      [] HappenedIn(x, "ws_send", "io") -> Err(WSSendIO)
      [] OTHER -> Pending

\* what finish() of x returns
FinishRetOf(x) ==
    LET f == ResultsIn(x, "ws_send_finish")
        c == ResultsIn(x, "ws_close")
        t == ResultsIn(x, "child_shutdown")
    IN  IF t = <<>> \/ t[1] = "hung" THEN Pending
        ELSE FinishMatch(TimedSendResult(f[1]),
                         IF c[1] = "ok" THEN Ok ELSE Err(WSClose),
                         IF t[1] = "ok" THEN Ok ELSE Err(ChildShutdown)).ret

\* C25: with two executions in every interleaving of their steps, the frames
\* each transport holds and what each execution's start(), process() and
\* finish() returned are those that follow from that execution's own
\* request, worker records and operation outcomes.
C25_ExecutionsIndependent ==
    \A n \in 1..Len(All) :
        LET x == All[n] IN
        /\ x.sent = SentOf(x)
        /\ x.startRet = StartRetOf(x)
        /\ x.processRet = ProcessRetOf(x)
        /\ x.finishRet = FinishRetOf(x)
        /\ x.childIn = IF HappenedIn(x, "child_send", "ok") THEN <<x.request[1]>> ELSE <<>>

\* both executions have forwarded a record of their own worker, with
\* different timestamps, and both went on to finish()
C25_Witness ==
    /\ Len(others) = 1
    /\ pc = "finish_close"
    /\ others[1].pc = "finish"
    /\ Len(sent) = 3
    /\ Len(others[1].sent) = 2
    /\ sent[2] # others[1].sent[2]

-----------------------------------------------------------------------------
(* What a Started value stands for *)

\* start() returned Ok(Started { child, stdout })
Started == startRet = Ok

\* the entry of the trace at which the worker's input was half-closed
HalfClosedAt(i) == trace[i] = Op("child_close", "ok")

\* C31: whenever a Started value exists, the request has been written to the
\* worker as its only input and the worker's input is half-closed; the
\* worker's output is taken and read only after the half-close went through.
C31_StartedAfterRequest ==
    /\ Started =>
        /\ request # None
        /\ childIn = <<request[1]>>
        /\ childStdin = "closed"
    /\ \A i \in 1..Len(trace) :
        trace[i].op \in {"take_stdout", "try_next"} =>
            \E j \in 1..(i - 1) :
                /\ HalfClosedAt(j)
                /\ \E k \in 1..(j - 1) : trace[k] = Op("child_send", "ok")
    /\ stdoutLine # None => Started

\* start() has just returned the Started value and nothing was read yet
C31_Witness ==
    /\ Started
    /\ pc = "process_next"
    /\ ~Attempted("try_next")
    /\ childStdin = "closed"
    /\ childIn = <<request[1]>>

-----------------------------------------------------------------------------
(* The three operations of finish(), one after another *)

\* the operations of finish(), in the order of its body
FinishSteps == <<"ws_send_finish", "ws_close", "child_shutdown">>

IsFinishStep(entry) ==
    entry.op \in {FinishSteps[i] : i \in 1..Len(FinishSteps)}

\* the operations finish() has attempted so far
FinishTrace == SelectSeq(trace, IsFinishStep)

\* C32: finish() attempts the Finish send, the transport close and the
\* termination of the worker one after another: the close is attempted only
\* once the Finish send has come back (sent, failed or timed out), the
\* termination only once the close has come back, and the transport is still
\* open when the Finish send is attempted.
C32_FinishSequential ==
    LET steps == FinishTrace IN
    /\ Len(steps) <= Len(FinishSteps)
    /\ \A i \in 1..Len(steps) : steps[i].op = FinishSteps[i]
    /\ steps # <<>> => steps = SubSeq(trace, Len(trace) - Len(steps) + 1, Len(trace))
    /\ Attempted("ws_close") =>
        /\ finished # None
        /\ steps[1].res \in TimedSendOutcomes
        /\ finished[1] = TimedSendResult(steps[1].res)
    /\ Attempted("child_shutdown") => closed # None
    /\ wsOpen <=> ~Attempted("ws_close")
    /\ pc = "finish" => (wsOpen /\ steps = <<>>)
    /\ pc = "finish_close" => (wsOpen /\ Len(steps) = 1)

\* the Finish send timed out, then the close and the termination went through
C32_Witness ==
    /\ pc = "done"
    /\ FinishTrace = <<Op("ws_send_finish", "timeout"), Op("ws_close", "ok"),
                       Op("child_shutdown", "ok")>>
    /\ ~wsOpen

-----------------------------------------------------------------------------
(* Finish, once and last *)

\* the operations that put an envelope on the transport
SendOps == {"ws_send_start", "ws_send", "ws_send_finish"}

\* finish() has been called and is past its first statement
PastFinishSend == pc \in {"finish_close", "finish_shutdown", "hung", "done"}

C33_FinishOnce ==
    /\ Attempts("ws_send_finish") <= 1
    /\ PastFinishSend => Attempts("ws_send_finish") = 1
    /\ Count(sent, "finish") = IF Happened("ws_send_finish", "ok") THEN 1 ELSE 0
    /\ Happened("ws_send_finish", "ok") => sent[Len(sent)] = FinishFrame
    /\ Attempted("ws_send_finish") =>
        \A i \in (At("ws_send_finish") + 1)..Len(trace) : trace[i].op \notin SendOps

\* C33: the Finish send is attempted exactly once in a finish() call, Finish
\* reaches the transport at most once and as its last envelope, and from the
\* Finish send attempt on (so also after the close attempt) no step of the
\* execution puts anything on the transport.
C33_FinishOnceAndLast ==
    /\ []C33_FinishOnce
    /\ [][Attempted("ws_send_finish") => sent' = sent]_vars

\* finish() is over: Finish followed two forwarded envelopes and nothing
\* followed it
C33_Witness ==
    /\ pc = "done"
    /\ Happened("ws_send_finish", "ok")
    /\ Len(sent) = 4
    /\ sent[4] = FinishFrame
    /\ Attempted("ws_close")

-----------------------------------------------------------------------------
(* What start() leaves on the transport *)

\* what start() has put on the transport
StartSent == IF Happened("ws_send_start", "ok") THEN <<StartFrame>> ELSE <<>>

\* C34: as long as start() has not returned a Started value, and so whenever
\* it has failed, the transport holds nothing but the Start message when its
\* send went through and nothing otherwise, and it has not been closed: only
\* operations of start() have been attempted, none of them a close.
C34_StartFailureLeavesStart ==
    /\ startRet # Ok =>
        /\ sent = StartSent
        /\ wsOpen
        /\ finished = None
        /\ closed = None
        /\ \A i \in 1..Len(trace) : trace[i].op \in StartOps
    /\ IsErr(startRet) =>
        /\ pc = "aborted"
        /\ Len(sent) <= 1
        /\ Count(sent, "finish") + Count(sent, "result") + Count(sent, "outputStream") = 0
    /\ \A i \in 1..Len(trace) :
        trace[i].op = "ws_close" => \E j \in 1..(i - 1) : trace[j] = Op("take_stdout", "ok")

\* the stdout pipe of the spawned worker was missing: start() failed at its
\* last step with Start on the open transport
C34_Witness ==
    /\ startRet = Err(ChildIO("stdout"))
    /\ sent = <<StartFrame>>
    /\ wsOpen
    /\ pc = "aborted"

-----------------------------------------------------------------------------
(* What process() leaves alone *)

\* process() is running or has returned an error
InProcess == Started /\ processRet # Ok

\* the operations process() performs: pulling a record and forwarding it
ProcessOps == {"try_next", "ws_send"}

\* C35: process() only pulls records and forwards them: while it runs and
\* when it has failed, no termination of the worker and no close of the
\* transport has been attempted, the transport is open and the worker has
\* not been made to exit; the termination is attempted only in finish(),
\* after process() returned Closing and after the Finish send and the close.
C35_ProcessLeavesWorkerAndTransport ==
    /\ InProcess =>
        /\ ~Attempted("child_shutdown")
        /\ ~Attempted("ws_close")
        /\ wsOpen
        /\ child = IF IsErr(processRet) THEN "orphaned" ELSE "running"
        /\ \A i \in 1..Len(trace) : trace[i].op \in StartOps \union ProcessOps
    /\ Attempted("child_shutdown") =>
        /\ processRet = Ok
        /\ Attempts("child_shutdown") = 1
        /\ trace[At("child_shutdown") - 1].op = "ws_close"
    /\ WorkerGone => Attempted("child_shutdown")

\* process() failed on its second send: the worker is left running with no
\* one to terminate it, the transport is still open
C35_Witness ==
    /\ processRet = Err(WSSendIO)
    /\ Len(emitted) = 2
    /\ child = "orphaned"
    /\ wsOpen
    /\ ~Attempted("child_shutdown")

-----------------------------------------------------------------------------
(* Where an error of process() comes from *)

\* the last operation attempted
LastOp == trace[Len(trace)]

\* process() returned Ok(Closing { child })
ClosingProduced == processRet = Ok

\* C36: process() returns ChildRecvIO exactly when pulling a record from the
\* worker's output failed, JSONSerialize exactly when a pulled record could
\* not be encoded, WSSendIO exactly when a transport send failed, each for
\* the operation it attempted last; it returns Closing exactly when the
\* worker's output came to its end, and then every record it pulled was
\* encoded and sent.
C36_ErrorsByOrigin ==
    /\ processRet = Err(ChildRecvIO) <=>
        (trace # <<>> /\ LastOp.op = "try_next" /\ LastOp.res \in {"io", "malformed"})
    /\ processRet = Err(JSONSerialize) <=>
        (trace # <<>> /\ LastOp = Op("try_next", "serialize"))
    /\ processRet = Err(WSSendIO) <=>
        (trace # <<>> /\ LastOp = Op("ws_send", "io"))
    /\ IsErr(processRet) => processRet.error \in {ChildRecvIO, JSONSerialize, WSSendIO}
    /\ ClosingProduced <=> Happened("try_next", "eof")
    /\ ClosingProduced =>
        /\ Attempts("try_next") = Len(emitted) + 1
        /\ SendsOk = Len(emitted)
        /\ Len(Payloads(sent)) = Len(emitted)
        /\ pending = None
        /\ ~Happened("ws_send", "io")
        /\ ~Happened("try_next", "serialize")

\* the worker's output ended after three records, each of them sent
C36_Witness ==
    /\ ClosingProduced
    /\ pc = "finish"
    /\ Len(emitted) = 3
    /\ SendsOk = 3

-----------------------------------------------------------------------------
(* A worker that emits nothing *)

\* the worker's output ended before any record came out of it
WorkerSilent == emitted = <<>> /\ Happened("try_next", "eof")

\* C37: when the worker closes its output without a record, the first pull
\* of process() ends its loop: no send is attempted, process() returns
\* Closing with Start alone on the transport, and once the Finish send of
\* finish() went through the transport holds exactly Start, Finish.
C37_SilentWorker ==
    WorkerSilent =>
        /\ processRet = Ok
        /\ Attempts("try_next") = 1
        /\ ~Attempted("ws_send")
        /\ stdoutLine = None
        /\ sent = <<StartFrame>> \o
                  (IF Happened("ws_send_finish", "ok") THEN <<FinishFrame>> ELSE <<>>)
        /\ EndedNormally => sent = <<StartFrame, FinishFrame>>

\* the execution of a silent worker ended normally
C37_Witness ==
    /\ WorkerSilent
    /\ EndedNormally
    /\ sent = <<StartFrame, FinishFrame>>

-----------------------------------------------------------------------------
(* The pipes of the worker *)

StdinMissing == Happened("take_stdin", "none")

StdoutMissing == Happened("take_stdout", "none")

\* the request is on the worker's input and the input is half-closed
RequestDelivered ==
    /\ request # None
    /\ childIn = <<request[1]>>
    /\ childStdin = "closed"
    /\ Happened("child_send", "ok")
    /\ Happened("child_close", "ok")

\* C38: start() takes the worker's stdin, writes the request and half-closes
\* the input before it takes the worker's stdout: a missing stdin pipe is
\* ChildIO("stdin") with nothing written to the worker, a missing stdout
\* pipe is ChildIO("stdout") with the request delivered and the input
\* half-closed.
C38_StdinBeforeStdout ==
    /\ Attempted("take_stdout") =>
        /\ Happened("take_stdin", "ok")
        /\ RequestDelivered
        /\ At("take_stdin") + 1 = At("child_send")
        /\ At("child_send") + 1 = At("child_close")
        /\ At("child_close") + 1 = At("take_stdout")
    /\ Attempted("child_send") =>
        (Happened("take_stdin", "ok") /\ At("take_stdin") < At("child_send"))
    /\ StdinMissing <=> startRet = Err(ChildIO("stdin"))
    /\ StdinMissing =>
        /\ childIn = <<>>
        /\ ~Attempted("child_send")
        /\ ~Attempted("child_close")
        /\ ~Attempted("take_stdout")
        /\ pc = "aborted"
    /\ StdoutMissing <=> startRet = Err(ChildIO("stdout"))
    /\ StdoutMissing => (RequestDelivered /\ pc = "aborted")

\* the stdout pipe was missing: the worker already has the request and an
\* input at its end
C38_Witness ==
    /\ StdoutMissing
    /\ RequestDelivered
    /\ child = "orphaned"

====
